---- MODULE Spec2Model ----
(***************************************************************************)
(* Model of the e-mail extraction engine of the Email Scraper extension    *)
(* (src/content.js).  A JavaScript string is a sequence of one-character   *)
(* strings; positions and indices keep JavaScript's 0-based values where   *)
(* the source computes with them (indexOf, substring, lastIndex).          *)
(***************************************************************************)
EXTENDS Integers, Sequences, FiniteSets, TLC

(***************************************************************************)
(* Characters and the JavaScript string primitives the engine uses.        *)
(***************************************************************************)
Chars(s) == [i \in 1..Len(s) |-> SubSeq(s, i, i)]

UpperSeq == Chars("ABCDEFGHIJKLMNOPQRSTUVWXYZ")
LowerSeq == Chars("abcdefghijklmnopqrstuvwxyz")
DigitSeq == Chars("0123456789")
Upper == {UpperSeq[i] : i \in 1..Len(UpperSeq)}
Lower == {LowerSeq[i] : i \in 1..Len(LowerSeq)}

\* [a-zA-Z0-9]
Alnum == Upper \cup Lower \cup {DigitSeq[i] : i \in 1..Len(DigitSeq)}
\* \w
WordChars == Alnum \cup {"_"}
\* \s, and the characters String.prototype.trim removes
Spaces == {" ", "\t", "\n", "\r"}
\* the character class of the local part of emailRegex: alphanumerics and
\* . ! # $ % & ' * + / = ? ^ _ (grave accent) { | } ~ -
\* The grave accent cannot be written in a string of this language: the
\* character is named by its code point.
LocalChars ==
    Alnum \cup {".", "!", "#", "$", "%", "&", "'", "*", "+", "/", "=", "?", "^", "_", "U+0060", "{", "|", "}", "~", "-"}
\* [a-zA-Z0-9-]
LabelChars == Alnum \cup {"-"}

Min(a, b) == IF a <= b THEN a ELSE b

toLowerCase(s) ==
    [i \in 1..Len(s) |->
       IF s[i] \in Upper THEN LowerSeq[CHOOSE k \in 1..Len(UpperSeq) : UpperSeq[k] = s[i]] ELSE s[i]]

\* s.substring(from, to) and s.substring(from), 0-based, end exclusive
substring(s, from, to) == SubSeq(s, from + 1, to)
substringFrom(s, from) == SubSeq(s, from + 1, Len(s))

\* sub occurs in s at the 0-based index i
OccursAt(s, sub, i) == i + Len(sub) <= Len(s) /\ SubSeq(s, i + 1, i + Len(sub)) = sub
includes(s, sub) == \E i \in 0..Len(s) : OccursAt(s, sub, i)
\* s.indexOf(sub): the 0-based index of the first occurrence, -1 when there is none
indexOf(s, sub) ==
    IF includes(s, sub)
    THEN CHOOSE i \in 0..Len(s) : OccursAt(s, sub, i) /\ \A k \in 0..(i - 1) : ~OccursAt(s, sub, k)
    ELSE -1
\* s.lastIndexOf(sub): the index of the last occurrence
lastIndexOf(s, sub) ==
    IF includes(s, sub)
    THEN CHOOSE i \in 0..Len(s) : OccursAt(s, sub, i) /\ \A k \in (i + 1)..Len(s) : ~OccursAt(s, sub, k)
    ELSE -1
startsWith(s, sub) == OccursAt(s, sub, 0)
endsWith(s, sub) == Len(sub) <= Len(s) /\ OccursAt(s, sub, Len(s) - Len(sub))

\* s.trim()
trim(s) ==
    IF \A i \in 1..Len(s) : s[i] \in Spaces THEN <<>>
    ELSE SubSeq(s, CHOOSE i \in 1..Len(s) : s[i] \notin Spaces /\ \A k \in 1..(i - 1) : s[k] \in Spaces,
                   CHOOSE j \in 1..Len(s) : s[j] \notin Spaces /\ \A k \in (j + 1)..Len(s) : s[k] \in Spaces)

\* s.split(sep)[0] and the last element of s.split(sep), for a one-character sep
splitFirst(s, sep) == IF includes(s, sep) THEN substring(s, 0, indexOf(s, sep)) ELSE s
splitLast(s, sep) == substringFrom(s, lastIndexOf(s, sep) + 1)

(***************************************************************************)
(* Regular expressions.  RunEnd(s, i, C) is the 1-based position of the    *)
(* first character at or after position i that is not of class C           *)
(* (Len(s) + 1 when the run reaches the end): where a greedy C* stops.     *)
(***************************************************************************)
RunEnd(s, i, C) ==
    IF \E j \in i..Len(s) : s[j] \notin C
    THEN CHOOSE j \in i..Len(s) : s[j] \notin C /\ \A k \in i..(j - 1) : s[k] \in C
    ELSE Len(s) + 1

\* pattern.test(s) for a literal pattern with the i flag (pat in lower case)
TestLiteralI(s, pat) == includes(toLowerCase(s), pat)

\* /on\w+\s*=/i : "on" at position i, a run of \w up to position w, spaces, =
TestEventHandler(s) ==
    \E i \in 1..Len(s) :
        LET w == RunEnd(s, i + 2, WordChars)
            e == RunEnd(s, w, Spaces)
        IN /\ OccursAt(toLowerCase(s), <<"o", "n">>, i - 1)
           /\ w > i + 2
           /\ e <= Len(s) /\ s[e] = "="

\* /data:\s*text\/html/i
TestDataHtml(s) ==
    \E i \in 1..Len(s) :
        /\ OccursAt(toLowerCase(s), Chars("data:"), i - 1)
        /\ OccursAt(toLowerCase(s), Chars("text/html"), RunEnd(s, i + 5, Spaces) - 1)

\* /expression\s*\(/i
TestExpression(s) ==
    \E i \in 1..Len(s) :
        LET e == RunEnd(s, i + 10, Spaces)
        IN /\ OccursAt(toLowerCase(s), Chars("expression"), i - 1)
           /\ e <= Len(s) /\ s[e] = "("

\* suspiciousPatterns.some(pattern => pattern.test(email))
suspiciousPatterns(email) ==
    \/ \E pat \in {Chars("<script"), Chars("javascript:"), Chars("vbscript:")} : TestLiteralI(email, pat)
    \/ TestEventHandler(email)
    \/ TestDataHtml(email)
    \/ TestExpression(email)

(***************************************************************************)
(* EmailExtractor.isValidEmail (the object literal of content.js).         *)
(***************************************************************************)
\* the invalid patterns with '--' left out
invalidPairsNoDashes(email) ==
    \E pair \in {<<".", ".">>, <<"@", "@">>} : includes(email, pair)

\* the check for common invalid patterns: '..', '@@' and '--'
invalidPairs(email) ==
    \E pair \in {<<".", ".">>, <<"@", "@">>, <<"-", "-">>} : includes(email, pair)

\* the checks of the domain with the upper limit of the top-level label left out
domainValidationNoTldMaximum(domain) ==
    IF Len(domain) > 253 \/ Len(domain) = 0 THEN FALSE
    ELSE IF ~includes(domain, <<".">>) \/ startsWith(domain, <<".">>) \/ endsWith(domain, <<".">>) THEN FALSE
    ELSE IF Len(splitLast(domain, <<".">>)) < 2 THEN FALSE
    ELSE TRUE

\* the checks of the domain: its length, its structure, and the length of
\* tld, the last of domain.split('.')
domainValidation(domain) ==
    IF Len(domain) > 253 \/ Len(domain) = 0 THEN FALSE
    ELSE IF ~includes(domain, <<".">>) \/ startsWith(domain, <<".">>) \/ endsWith(domain, <<".">>) THEN FALSE
    ELSE IF Len(splitLast(domain, <<".">>)) < 2 \/ Len(splitLast(domain, <<".">>)) > 6 THEN FALSE
    ELSE TRUE

\* the length guard alone, every check after it left out
isValidEmailLengthOnly(email) == Len(email) > 0 /\ Len(email) <= 254

isValidEmail(email) ==
    IF Len(email) = 0 \/ Len(email) > 254 THEN FALSE
    ELSE LET atIndex == indexOf(email, <<"@">>)
             localPart == substring(email, 0, atIndex)
             domain == substringFrom(email, atIndex + 1)
         IN IF atIndex = -1 \/ atIndex = 0 \/ atIndex = Len(email) - 1 THEN FALSE
            ELSE IF Len(localPart) > 64 \/ Len(localPart) = 0 THEN FALSE
            ELSE IF ~domainValidation(domain) THEN FALSE
            ELSE IF suspiciousPatterns(email) THEN FALSE
            ELSE IF invalidPairs(email) THEN FALSE
            ELSE TRUE

(***************************************************************************)
(* emailRegex, the scanner's grammar:                                      *)
(*   local+ @ label (. label)*   with the g flag,                          *)
(*   label = alnum ( [alnum or -]{0,61} alnum )?                           *)
(* Every quantifier is greedy and nothing follows the domain, so the match *)
(* the engine returns at a start position is the one computed here: the    *)
(* whole run of local characters (no shorter run is followed by @), then   *)
(* each label as long as it can be, then labels while ". alnum" follows.   *)
(* Positions inside the matcher are 1-based; an end is exclusive.          *)
(***************************************************************************)
\* the end of the label that starts at position p (s[p] is alphanumeric):
\* after the last alphanumeric among the next 62 label characters
LabelEnd(s, p) ==
    LET stop == RunEnd(s, p + 1, LabelChars)
        hi == Min(stop - 1, p + 62)
    IN IF \E q \in (p + 1)..hi : s[q] \in Alnum
       THEN (CHOOSE q \in (p + 1)..hi : s[q] \in Alnum /\ \A k \in (q + 1)..hi : s[k] \notin Alnum) + 1
       ELSE p + 1

RECURSIVE DomainEnd(_, _)
\* the end of the domain whose first label starts at position p
DomainEnd(s, p) ==
    LET e == LabelEnd(s, p)
    IN IF e + 1 <= Len(s) /\ s[e] = "." /\ s[e + 1] \in Alnum
       THEN DomainEnd(s, e + 1)
       ELSE e

\* the end of the match that starts at position p, 0 when none starts there
MatchEndAt(s, p) ==
    IF s[p] \notin LocalChars THEN 0
    ELSE LET at == RunEnd(s, p, LocalChars)
         IN IF at + 1 <= Len(s) /\ s[at] = "@" /\ s[at + 1] \in Alnum
            THEN DomainEnd(s, at + 1)
            ELSE 0

\* emailRegex.exec(text) with emailRegex.lastIndex = lastIndex: the leftmost
\* match at or after lastIndex, and the lastIndex the call leaves behind
exec(text, lastIndex) ==
    IF \E p \in (lastIndex + 1)..Len(text) : MatchEndAt(text, p) # 0
    THEN LET p == CHOOSE q \in (lastIndex + 1)..Len(text) :
                       MatchEndAt(text, q) # 0 /\ \A k \in (lastIndex + 1)..(q - 1) : MatchEndAt(text, k) = 0
             e == MatchEndAt(text, p)
         IN [found |-> TRUE, str |-> SubSeq(text, p, e - 1), lastIndex |-> e - 1]
    ELSE [found |-> FALSE, str |-> <<>>, lastIndex |-> 0]

(***************************************************************************)
(* Arrays and Sets.  A JavaScript Set is the sequence of its elements in   *)
(* insertion order, without repetition.                                    *)
(***************************************************************************)
arrayIncludes(arr, x) == \E i \in 1..Len(arr) : arr[i] = x

\* a Set that moves an element added again to the end
setAddMoving(set, x) == Append(SelectSeq(set, LAMBDA y : y # x), x)

\* set.add(x)
setAdd(set, x) == IF arrayIncludes(set, x) THEN set ELSE Append(set, x)

RECURSIVE addRange(_, _, _, _)
\* arr.slice(lo - 1, hi).forEach(x => set.add(x)), composed by halves so that
\* the depth of the evaluation is logarithmic in the number of elements
addRange(set, arr, lo, hi) ==
    IF lo > hi THEN set
    ELSE IF lo = hi THEN setAdd(set, arr[lo])
    ELSE LET left == addRange(set, arr, lo, (lo + hi) \div 2)
         IN IF Len(left) = 0
            THEN addRange(<<>>, arr, ((lo + hi) \div 2) + 1, hi)
            ELSE addRange(left, arr, ((lo + hi) \div 2) + 1, hi)

\* arr.forEach(x => set.add(x))
addAll(set, arr) == addRange(set, arr, 1, Len(arr))

RECURSIVE concatRange(_, _, _)
\* the concatenation of strs[lo] .. strs[hi], composed by halves
concatRange(strs, lo, hi) ==
    IF lo > hi THEN <<>>
    ELSE IF lo = hi THEN strs[lo]
    ELSE concatRange(strs, lo, (lo + hi) \div 2) \o concatRange(strs, ((lo + hi) \div 2) + 1, hi)

\* the concatenation of a sequence of strings, or of arrays
concat(strs) == concatRange(strs, 1, Len(strs))

(***************************************************************************)
(* EmailExtractor.extractFromText (the object literal of content.js).      *)
(* The state of its while loop is the emails array, the regex's lastIndex  *)
(* and whether exec has returned null.                                     *)
(***************************************************************************)
\* the loop's test and body for what exec returned
scanMatch(st, match) ==
    IF ~match.found THEN [st EXCEPT !.done = TRUE, !.lastIndex = 0]
    ELSE LET email == trim(toLowerCase(match.str))
         IN [emails |-> IF isValidEmail(email) /\ ~arrayIncludes(st.emails, email)
                        THEN Append(st.emails, email)
                        ELSE st.emails,
             lastIndex |-> match.lastIndex,
             done |-> FALSE]

\* one iteration of the while loop
scanStep(text, st) == IF st.done THEN st ELSE scanMatch(st, exec(text, st.lastIndex))

RECURSIVE scanLoop(_, _, _)
\* n iterations of the while loop, composed by halves
scanLoop(text, st, n) ==
    IF n = 0 THEN st
    ELSE IF n = 1 THEN scanStep(text, st)
    ELSE LET half == scanLoop(text, st, n \div 2)
         IN IF half.done THEN half ELSE scanLoop(text, half, n - (n \div 2))

\* Every match holds one @, so the loop ends within this many iterations.
loopBound(text) == Cardinality({i \in 1..Len(text) : text[i] = "@"}) + 1

extractFromText(text) ==
    IF Len(text) = 0 THEN <<>>
    ELSE scanLoop(text, [emails |-> <<>>, lastIndex |-> 0, done |-> FALSE], loopBound(text)).emails

(***************************************************************************)
(* The shared regular expression.  emailRegex carries the g flag: it keeps  *)
(* in lastIndex where its last match ended, and extractFromText sets it to *)
(* 0 before its loop.  The extractor of performance-test.js leaves its     *)
(* loop as soon as it holds 100 addresses.                                 *)
(***************************************************************************)
\* a scanner that goes on from where the regular expression was left
keepLastIndex(regexLastIndex) == regexLastIndex

\* this.emailRegex.lastIndex = 0
resetLastIndex(regexLastIndex) == 0

\* EmailExtractor.extractFromText of content.js on a regular expression left
\* at regexLastIndex: the addresses returned, and the lastIndex left behind
extractFromTextAt(text, regexLastIndex) ==
    IF Len(text) = 0 THEN [emails |-> <<>>, lastIndex |-> regexLastIndex]
    ELSE LET st == scanLoop(text, [emails |-> <<>>, lastIndex |-> resetLastIndex(regexLastIndex), done |-> FALSE],
                            loopBound(text))
         IN [emails |-> st.emails, lastIndex |-> st.lastIndex]

\* isValidEmail of performance-test.js
perfIsValidEmail(email) ==
    /\ Len(email) > 0 /\ Len(email) <= 254
    /\ indexOf(email, <<"@">>) # -1 /\ indexOf(email, <<"@">>) # 0
    /\ LET domain == substringFrom(email, indexOf(email, <<"@">>) + 1)
       IN includes(domain, <<".">>) /\ ~startsWith(domain, <<".">>) /\ ~endsWith(domain, <<".">>)

\* one iteration of the while loop of performance-test.js
perfScanStep(text, st) ==
    IF st.done THEN st
    ELSE LET match == exec(text, st.lastIndex)
             email == trim(toLowerCase(match.str))
         IN IF ~match.found THEN [st EXCEPT !.done = TRUE, !.lastIndex = 0]
            ELSE IF perfIsValidEmail(email) /\ ~arrayIncludes(st.emails, email)
            THEN [emails |-> Append(st.emails, email), lastIndex |-> match.lastIndex,
                  done |-> Len(st.emails) + 1 >= 100]
            ELSE [st EXCEPT !.lastIndex = match.lastIndex]

RECURSIVE perfScanLoop(_, _, _)
\* n iterations of the while loop, composed by halves
perfScanLoop(text, st, n) ==
    IF n = 0 THEN st
    ELSE IF n = 1 THEN perfScanStep(text, st)
    ELSE LET half == perfScanLoop(text, st, n \div 2)
         IN IF half.done THEN half ELSE perfScanLoop(text, half, n - (n \div 2))

\* EmailExtractor.extractFromText of performance-test.js on a regular
\* expression left at regexLastIndex
perfExtractFromText(text, regexLastIndex) ==
    IF Len(text) = 0 THEN [emails |-> <<>>, lastIndex |-> regexLastIndex]
    ELSE LET st == perfScanLoop(text, [emails |-> <<>>, lastIndex |-> resetLastIndex(regexLastIndex), done |-> FALSE],
                                loopBound(text))
         IN [emails |-> st.emails, lastIndex |-> st.lastIndex]

(***************************************************************************)
(* The document.  An element carries its tag name, its textContent, the    *)
(* attributes and properties the engine reads, and for an iframe the text  *)
(* of its content document.  Null is JavaScript's null: what getAttribute  *)
(* returns for an absent attribute, and the contentDocument of an iframe   *)
(* that cannot be accessed.  The document is                               *)
(*   html > head > (head elements),  html > body > (body elements)         *)
(* and querySelectorAll returns elements in document order.                *)
(***************************************************************************)
Null == <<"null">>

El == [tag |-> "div", text |-> <<>>, href |-> Null, src |-> Null, title |-> Null,
       alt |-> Null, dataEmail |-> Null, dataContact |-> Null, dataMail |-> Null,
       type |-> Null, name |-> Null, placeholder |-> Null, property |-> Null,
       class |-> Null, id |-> Null, content |-> Null, value |-> <<>>,
       defaultValue |-> <<>>, frameText |-> Null]

\* the textContent of an element whose children are els
textOf(els) == concat([i \in 1..Len(els) |-> els[i].text])

\* document.body
bodyElement(doc) == [El EXCEPT !.tag = "body", !.text = textOf(doc.body)]

\* document.querySelectorAll('*')
allElements(doc) ==
    <<[El EXCEPT !.tag = "html", !.text = textOf(doc.head \o doc.body)],
      [El EXCEPT !.tag = "head", !.text = textOf(doc.head)]>>
      \o doc.head \o <<bodyElement(doc)>> \o doc.body

\* whether an attribute is present and its value contains sub
attrContains(value, sub) == value # Null /\ includes(value, sub)

\* the class attribute holds the token cls
hasClass(el, cls) ==
    /\ el.class # Null
    /\ \E i \in 0..Len(el.class) :
          /\ OccursAt(el.class, cls, i)
          /\ (i = 0 \/ el.class[i] \in Spaces)
          /\ (i + Len(cls) = Len(el.class) \/ el.class[i + Len(cls) + 1] \in Spaces)

MailtoPrefix == Chars("mailto:")
EmailWord == Chars("email")

\* element.matches(selector), for the selectors the engine uses
matches(el, selector) ==
    CASE selector = "*" -> TRUE
      [] selector = "iframe" -> el.tag = "iframe"
      [] selector = "a[href^=\"mailto:\"]" -> el.tag = "a" /\ el.href # Null /\ startsWith(el.href, MailtoPrefix)
      [] selector = "[data-email], [data-contact], [data-mail]" ->
            el.dataEmail # Null \/ el.dataContact # Null \/ el.dataMail # Null
      [] selector = "input[type=\"email\"], input[name*=\"email\"], input[placeholder*=\"email\"]" ->
            /\ el.tag = "input"
            /\ \/ el.type = EmailWord
               \/ attrContains(el.name, EmailWord)
               \/ attrContains(el.placeholder, EmailWord)
      [] selector = "meta" -> el.tag = "meta"
      [] selector = "script[type=\"application/ld+json\"]" ->
            el.tag = "script" /\ el.type = Chars("application/ld+json")
      [] selector = "a[href*=\"mailto:\"]" -> el.tag = "a" /\ attrContains(el.href, MailtoPrefix)
      [] selector = "[data-email]" -> el.dataEmail # Null
      [] selector = ".email" -> hasClass(el, EmailWord)
      [] selector = ".contact-email" -> hasClass(el, Chars("contact-email"))
      [] selector = "[class*=\"email\"]" -> attrContains(el.class, EmailWord)
      [] selector = "[id*=\"email\"]" -> attrContains(el.id, EmailWord)
      [] selector = "meta[name*=\"email\"], meta[property*=\"email\"]" ->
            el.tag = "meta" /\ (attrContains(el.name, EmailWord) \/ attrContains(el.property, EmailWord))
      [] selector = "input[type=\"password\"]" -> el.tag = "input" /\ el.type = Chars("password")
      [] selector = "input[type=\"email\"]" -> el.tag = "input" /\ el.type = EmailWord
      [] selector \in {"textarea", "form", "script", "style"} -> el.tag = selector

\* document.querySelectorAll(selector)
querySelectorAll(doc, selector) == SelectSeq(allElements(doc), LAMBDA el : matches(el, selector))

\* arr.slice(0, n), and s.substring(0, n)
slice(arr, n) == SubSeq(arr, 1, Min(Len(arr), n))

\* a JavaScript value in a boolean context, for a string or null
truthy(v) == v # Null /\ Len(v) > 0
\* a || b
or(a, b) == IF truthy(a) THEN a ELSE b

(***************************************************************************)
(* EmailExtractor.getAllTextContent: the text of the body, then the        *)
(* trimmed text of each of the first 1000 elements after a space, then the *)
(* body text of each of the first 10 iframes that can be accessed.         *)
(***************************************************************************)
getAllTextContent(doc) ==
    LET els == slice(querySelectorAll(doc, "*"), 1000)
        iframes == slice(querySelectorAll(doc, "iframe"), 10)
    IN bodyElement(doc).text
         \o concat([i \in 1..Len(els) |->
                      IF Len(trim(els[i].text)) > 0 THEN <<" ">> \o trim(els[i].text) ELSE <<>>])
         \o concat([i \in 1..Len(iframes) |->
                      IF iframes[i].frameText # Null THEN <<" ">> \o iframes[i].frameText ELSE <<>>])

(***************************************************************************)
(* The five attribute and structured-data sources of the object literal.   *)
(* Each returns its validated candidates in document order; Null stands    *)
(* for an element that yields none.                                        *)
(***************************************************************************)
\* the candidates that were pushed
pushed(cands) == SelectSeq(cands, LAMBDA c : c # Null)

extractFromMailtoLinks(doc) ==
    LET mailtoLinks == querySelectorAll(doc, "a[href^=\"mailto:\"]")
    IN pushed([i \in 1..Len(mailtoLinks) |->
                 IF ~truthy(mailtoLinks[i].href) THEN Null
                 ELSE LET email == trim(toLowerCase(splitFirst(substringFrom(mailtoLinks[i].href, 7), <<"?">>)))
                      IN IF isValidEmail(email) THEN email ELSE Null])

\* validated as read and trimmed, the lower-casing left out
rawCandidateKeepCase(value) ==
    IF truthy(value) /\ isValidEmail(value) THEN trim(value) ELSE Null

\* if (value && this.isValidEmail(value)) emails.push(value.toLowerCase().trim()):
\* validated as read, then lower-cased and trimmed
rawCandidate(value) ==
    IF truthy(value) /\ isValidEmail(value) THEN trim(toLowerCase(value)) ELSE Null

extractFromDataAttributes(doc) ==
    LET dataElements == querySelectorAll(doc, "[data-email], [data-contact], [data-mail]")
    IN pushed([i \in 1..Len(dataElements) |->
                 rawCandidate(or(or(dataElements[i].dataEmail, dataElements[i].dataContact),
                                 dataElements[i].dataMail))])

\* input.placeholder is the attribute's value, '' when the attribute is absent
extractFromInputFields(doc) ==
    LET emailInputs ==
            querySelectorAll(doc, "input[type=\"email\"], input[name*=\"email\"], input[placeholder*=\"email\"]")
    IN pushed([i \in 1..Len(emailInputs) |->
                 rawCandidate(or(or(emailInputs[i].value, emailInputs[i].defaultValue),
                                 IF emailInputs[i].placeholder = Null THEN <<>>
                                 ELSE emailInputs[i].placeholder))])

extractFromMetaTags(doc) ==
    LET metaTags == querySelectorAll(doc, "meta")
    IN pushed([i \in 1..Len(metaTags) |-> rawCandidate(metaTags[i].content)])

(***************************************************************************)
(* JSON.parse, on the fragment of JSON the documents of this model use: a  *)
(* string, or an object whose members are strings (no white space, no      *)
(* escapes, distinct keys).  Any other text of the model's documents is    *)
(* malformed and makes JSON.parse throw.                                   *)
(***************************************************************************)
\* the positions of the double quotes of t
quotePositions(t) == SelectSeq([i \in 1..Len(t) |-> i], LAMBDA i : t[i] = "\"")

\* JSON.parse(t): the value, or that the call threw.  In an object the
\* quotes of the text between the braces come in fours, key and value.
JSONparse(t) ==
    LET inner == SubSeq(t, 2, Len(t) - 1)
        qs == quotePositions(inner)
    IN IF /\ Len(t) >= 2 /\ t[1] = "\"" /\ t[Len(t)] = "\""
          /\ \A i \in 1..Len(inner) : inner[i] # "\"" /\ inner[i] # "\\"
       THEN [threw |-> FALSE, value |-> [kind |-> "string", str |-> inner]]
       ELSE IF /\ Len(t) >= 2 /\ t[1] = "{" /\ t[Len(t)] = "}"
               /\ \/ Len(inner) = 0
                  \/ /\ Len(qs) > 0 /\ Len(qs) % 4 = 0
                     /\ qs[1] = 1 /\ qs[Len(qs)] = Len(inner)
                     /\ \A i \in 1..Len(inner) : inner[i] # "\\"
                     /\ \A j \in 1..((Len(qs) \div 2) - 1) :
                            /\ qs[2 * j + 1] = qs[2 * j] + 2
                            /\ inner[qs[2 * j] + 1] = (IF j % 2 = 1 THEN ":" ELSE ",")
       THEN [threw |-> FALSE,
             value |-> [kind |-> "object",
                        members |-> [m \in 1..(Len(qs) \div 4) |->
                                       [key |-> SubSeq(inner, qs[4 * m - 3] + 1, qs[4 * m - 2] - 1),
                                        value |-> [kind |-> "string",
                                                   str |-> SubSeq(inner, qs[4 * m - 1] + 1, qs[4 * m] - 1)]]]]]
       ELSE [threw |-> TRUE]

\* JSON.stringify(v)
JSONstringify(v) ==
    IF v.kind = "string" THEN <<"\"">> \o v.str \o <<"\"">>
    ELSE <<"{">>
           \o concat([i \in 1..Len(v.members) |->
                        (IF i > 1 THEN <<",">> ELSE <<>>)
                          \o <<"\"">> \o v.members[i].key \o <<"\"", ":", "\"">>
                          \o v.members[i].value.str \o <<"\"">>])
           \o <<"}">>

RECURSIVE extractEmailsFromObject(_)
extractEmailsFromObject(obj) ==
    IF obj.kind = "string"
    THEN IF isValidEmail(obj.str) THEN <<trim(toLowerCase(obj.str))>> ELSE <<>>
    ELSE concat([i \in 1..Len(obj.members) |-> extractEmailsFromObject(obj.members[i].value)])

\* a source that returns nothing at all once one of its scripts fails to parse
extractFromStructuredDataAllOrNothing(doc) ==
    LET scripts == querySelectorAll(doc, "script[type=\"application/ld+json\"]")
    IN IF \E i \in 1..Len(scripts) : Len(scripts[i].text) > 0 /\ JSONparse(scripts[i].text).threw
       THEN <<>>
       ELSE concat([i \in 1..Len(scripts) |->
                      IF Len(scripts[i].text) = 0 THEN <<>>
                      ELSE extractEmailsFromObject(JSONparse(scripts[i].text).value)])

\* a script whose text does not parse is skipped
extractFromStructuredData(doc) ==
    LET scripts == querySelectorAll(doc, "script[type=\"application/ld+json\"]")
    IN concat([i \in 1..Len(scripts) |->
                 IF Len(scripts[i].text) = 0 THEN <<>>
                 ELSE LET jsonData == JSONparse(scripts[i].text)
                      IN IF jsonData.threw THEN <<>> ELSE extractEmailsFromObject(jsonData.value)])

(***************************************************************************)
(* EmailExtractor.extractEmails (the object literal of content.js): the    *)
(* six sources in turn into one Set, then the false-positive filter.       *)
(***************************************************************************)
falsePositives ==
    {Chars("example@example.com"), Chars("test@test.com"), Chars("user@example.com"),
     Chars("admin@example.com"), Chars("info@example.com"), Chars("contact@example.com"),
     Chars("noreply@example.com"), Chars("no-reply@example.com"), Chars("sample@domain.com"),
     Chars("demo@example.com"), Chars("placeholder@email.com"), Chars("user@domain.com")}

\* the callback with the checks of the fragments left out
keepEmailExact(email) == email \notin falsePositives /\ Len(email) < 100

\* the callback of the final filter
keepEmail(email) ==
    /\ email \notin falsePositives
    /\ Len(email) < 100
    /\ \A frag \in {Chars("localhost"), Chars("127.0.0.1"), Chars("test."),
                    Chars("example."), Chars("demo.")} : ~includes(email, frag)

\* the Set once each of the six steps has added what it returned, in the
\* order the function runs them
collectEmails(doc) ==
    addAll(<<>>, concat(<<extractFromText(getAllTextContent(doc)),
                          extractFromMailtoLinks(doc),
                          extractFromDataAttributes(doc),
                          extractFromInputFields(doc),
                          extractFromMetaTags(doc),
                          extractFromStructuredData(doc)>>))

(***************************************************************************)
(* class EmailExtractor (content.js): the extractor behind                 *)
(* extractEmailsFromPage.  Its names carry the prefix "class" where the    *)
(* object literal has a function of the same name.                         *)
(***************************************************************************)
\* /@.*@/ : two @ with no line terminator between them
TestTwoAts(s) ==
    \E i \in 1..Len(s) : \E j \in (i + 1)..Len(s) :
        /\ s[i] = "@" /\ s[j] = "@"
        /\ \A k \in (i + 1)..(j - 1) : s[k] \notin {"\n", "\r"}

\* invalidPatterns.some(pattern => pattern.test(email))
invalidPatterns(email) ==
    \/ \E pat \in {<<".", ".">>, <<"@", ".">>, <<".", "@">>} : includes(email, pat)
    \/ \E c \in {".", "@"} : startsWith(email, <<c>>)
    \/ endsWith(email, <<".">>)
    \/ TestTwoAts(email)
    \/ ~includes(email, <<"@">>)

classIsValidEmail(email) ==
    IF Len(email) = 0 \/ Len(email) > 254 THEN FALSE
    ELSE IF invalidPatterns(email) THEN FALSE
    ELSE LET atIndex == indexOf(email, <<"@">>)
             domain == substringFrom(email, atIndex + 1)
         IN IF atIndex = -1 THEN FALSE
            ELSE IF ~includes(domain, <<".">>) \/ startsWith(domain, <<".">>) \/ endsWith(domain, <<".">>) THEN FALSE
            ELSE TRUE

\* the test and the body of the while loop of the class's extractFromText
\* for what exec returned; the loop breaks once it holds more than 1000
classScanMatch(st, match) ==
    IF ~match.found THEN [st EXCEPT !.done = TRUE, !.lastIndex = 0]
    ELSE LET email == trim(toLowerCase(match.str))
             emails == IF classIsValidEmail(email) THEN Append(st.emails, email) ELSE st.emails
         IN [emails |-> emails, lastIndex |-> match.lastIndex, done |-> Len(emails) > 1000]

classScanStep(text, st) == IF st.done THEN st ELSE classScanMatch(st, exec(text, st.lastIndex))

RECURSIVE classScanLoop(_, _, _)
\* n iterations of the while loop, composed by halves
classScanLoop(text, st, n) ==
    IF n = 0 THEN st
    ELSE IF n = 1 THEN classScanStep(text, st)
    ELSE LET half == classScanLoop(text, st, n \div 2)
         IN IF half.done THEN half ELSE classScanLoop(text, half, n - (n \div 2))

classExtractFromText(text) ==
    IF Len(text) = 0 THEN <<>>
    ELSE classScanLoop(text, [emails |-> <<>>, lastIndex |-> 0, done |-> FALSE], loopBound(text)).emails

sensitiveSelectors ==
    {"input[type=\"password\"]", "input[type=\"email\"]", "textarea", "form", "iframe", "script", "style"}

isSensitiveElement(el) == \E selector \in sensitiveSelectors : matches(el, selector)

emailAttributes == <<"href", "src", "data-email", "data-contact", "title", "alt">>

\* element.getAttribute(attr) for an attribute of emailAttributes
getAttribute(el, attr) ==
    CASE attr = "href" -> el.href
      [] attr = "src" -> el.src
      [] attr = "data-email" -> el.dataEmail
      [] attr = "data-contact" -> el.dataContact
      [] attr = "title" -> el.title
      [] attr = "alt" -> el.alt

\* the callback of emailAttributes.forEach: what the first 1000 characters
\* of one attribute's value contribute, the address of a mailto link being
\* validated as read
attributeEmails(attr, attrValue) ==
    IF ~truthy(attrValue) THEN <<>>
    ELSE LET safeAttrValue == slice(attrValue, 1000)
             email == splitFirst(substringFrom(safeAttrValue, 7), <<"?">>)
         IN IF attr = "href" /\ startsWith(safeAttrValue, MailtoPrefix)
            THEN IF classIsValidEmail(email) THEN <<trim(toLowerCase(email))>> ELSE <<>>
            ELSE classExtractFromText(safeAttrValue)

\* the callback of elementsArray.forEach: the first 10000 characters of the
\* element's text, then its attributes in order
elementEmails(el) ==
    IF isSensitiveElement(el) THEN <<>>
    ELSE classExtractFromText(slice(el.text, 10000))
           \o concat([k \in 1..Len(emailAttributes) |->
                        attributeEmails(emailAttributes[k], getAttribute(el, emailAttributes[k]))])

extractFromElements(elements) ==
    LET elementsArray == slice(elements, 10000)
    IN concat([i \in 1..Len(elementsArray) |-> elementEmails(elementsArray[i])])

\* the queries of the class's extractEmails, in the order it runs them:
\* every element, the six emailSelectors, the JSON-LD scripts, the meta tags
selectors ==
    <<"*", "a[href*=\"mailto:\"]", "[data-email]", ".email", ".contact-email",
      "[class*=\"email\"]", "[id*=\"email\"]", "script[type=\"application/ld+json\"]",
      "meta[name*=\"email\"], meta[property*=\"email\"]">>

\* the callback of jsonLdScripts.forEach; a script that does not parse is skipped
jsonLdEmails(script) ==
    LET data == JSONparse(script.text)
    IN IF data.threw THEN <<>> ELSE classExtractFromText(JSONstringify(data.value))

\* what the elements of one query add: the JSON-LD scripts their parsed
\* text, the elements of every other query what extractFromElements returns
selectorEmails(selector, elements) ==
    IF selector = "script[type=\"application/ld+json\"]"
    THEN concat([i \in 1..Len(elements) |-> jsonLdEmails(elements[i])])
    ELSE extractFromElements(elements)

\* arr.forEach(email => emails.add(email.toLowerCase().trim())) for the
\* array of each query in turn
classExtractEmails(doc) ==
    LET found == concat([k \in 1..Len(selectors) |->
                           selectorEmails(selectors[k], querySelectorAll(doc, selectors[k]))])
    IN addAll(<<>>, [i \in 1..Len(found) |-> trim(toLowerCase(found[i]))])

(***************************************************************************)
(* filterFalsePositives.  The list holds five exact addresses, four        *)
(* strings and one regular expression; the filter calls pattern.test on    *)
(* every entry after the fifth, and a string has no method test: the call  *)
(* throws a TypeError.                                                     *)
(***************************************************************************)
filterList ==
    <<[kind |-> "string", str |-> Chars("example@example.com")],
      [kind |-> "string", str |-> Chars("test@test.com")],
      [kind |-> "string", str |-> Chars("user@example.com")],
      [kind |-> "string", str |-> Chars("email@example.com")],
      [kind |-> "string", str |-> Chars("info@example.com")],
      [kind |-> "string", str |-> Chars("noreply@")],
      [kind |-> "string", str |-> Chars("no-reply@")],
      [kind |-> "string", str |-> Chars("donotreply@")],
      [kind |-> "string", str |-> Chars("newsletter@")],
      [kind |-> "regexp", str |-> Chars("@.{1,2}\\.")]>>

\* /@.{1,2}\./ : an @, one or two characters that end no line, a dot
TestShortLabel(s) ==
    \E i \in 1..Len(s) :
        /\ s[i] = "@"
        /\ \E n \in 1..2 :
              /\ i + n + 1 <= Len(s)
              /\ \A k \in (i + 1)..(i + n) : s[k] \notin {"\n", "\r"}
              /\ s[i + n + 1] = "."

\* pattern.test(email): a string has no method test
patternTest(pattern, email) ==
    IF pattern.kind = "string" THEN "threw"
    ELSE IF TestShortLabel(email) THEN "true" ELSE "false"

\* the outcome of the filter's callback on one address: kept, dropped, or
\* threw; some stops at the first pattern whose test throws or returns true
filterOutcome(email) ==
    IF \E i \in 1..5 : filterList[i].str = toLowerCase(email) THEN "dropped"
    ELSE IF \A i \in 6..Len(filterList) : patternTest(filterList[i], email) = "false" THEN "kept"
    ELSE IF patternTest(filterList[CHOOSE i \in 6..Len(filterList) :
                                       /\ patternTest(filterList[i], email) # "false"
                                       /\ \A k \in 6..(i - 1) : patternTest(filterList[k], email) = "false"],
                        email) = "threw"
    THEN "threw"
    ELSE "dropped"

\* emails.filter(...): the array, or that the callback threw
filterFalsePositives(emails) ==
    IF \E i \in 1..Len(emails) : filterOutcome(emails[i]) = "threw"
    THEN [threw |-> TRUE, value |-> <<>>]
    ELSE [threw |-> FALSE, value |-> SelectSeq(emails, LAMBDA e : filterOutcome(e) = "kept")]

MaxResults == 500

\* the limit of extractEmailsFromPage; an exception of a step before it is
\* caught and [] returned
limitResults(filtered) ==
    IF filtered.threw THEN <<>>
    ELSE IF Len(filtered.value) > MaxResults THEN slice(filtered.value, MaxResults)
    ELSE filtered.value

(***************************************************************************)
(* The documents of the model.  A document takes up to MaxHead elements of *)
(* HeadPool and up to MaxBody elements of BodyPool, in the pools' order.   *)
(* BulkDocument holds MaxResults + BulkExtra distinct addresses in one     *)
(* element, and a mailto link after it; one more document holds an address *)
(* of 105 characters.                                                      *)
(***************************************************************************)
MaxHead == 1
MaxBody == 2
BulkExtra == 1

HeadPool ==
    <<[El EXCEPT !.tag = "meta", !.content = Chars("Admin@Site.io")],
      [El EXCEPT !.tag = "meta", !.content = Chars("info@example.com")]>>

BodyPool ==
    <<[El EXCEPT !.tag = "p", !.text = Chars("Ask support@Example.COM or sales@company.org.")],
      [El EXCEPT !.tag = "p", !.text = Chars("a..b@domain.com SALES@company.org")],
      [El EXCEPT !.tag = "a", !.href = Chars("mailto:Jo@Site.io?subject=Hi"), !.text = Chars("Jo")],
      [El EXCEPT !.tag = "a", !.href = Chars("mailto:amy@b.co,cy@d.co"), !.text = Chars("us")],
      [El EXCEPT !.tag = "span", !.dataEmail = Chars("x@b.c ")],
      [El EXCEPT !.tag = "span", !.dataEmail = Chars(""), !.dataContact = Chars("Sales@Company.org")],
      [El EXCEPT !.tag = "input", !.name = Chars("email"), !.placeholder = Chars("<b>you@mail.net")],
      [El EXCEPT !.tag = "script", !.type = Chars("application/ld+json"),
                 !.text = Chars("{\"email\":\" Jane@Corp.io\",\"n\":\"x\"}")],
      [El EXCEPT !.tag = "script", !.type = Chars("application/ld+json"),
                 !.text = Chars("{\"email\":\"kim@corp.io\"")],
      [El EXCEPT !.tag = "iframe", !.frameText = Chars("ifr@demo.org bo@web.de")],
      [El EXCEPT !.tag = "iframe", !.src = Chars("https://x.io/?to=eve@x.io")],
      [El EXCEPT !.tag = "p", !.text = Chars("test@test.com joe@localhost.nu")]>>

\* the subsequences of pool with at most n elements
Picks(pool, n) ==
    {[i \in 1..Cardinality(S) |->
         pool[CHOOSE k \in S : Cardinality({j \in S : j <= k}) = i]] :
       S \in {T \in SUBSET (1..Len(pool)) : Cardinality(T) <= n}}

\* n addresses 001@dom.co, 002@dom.co, ..., each followed by a space
BulkText(n) ==
    concat([k \in 1..n |->
              <<DigitSeq[((k \div 100) % 10) + 1], DigitSeq[((k \div 10) % 10) + 1], DigitSeq[(k % 10) + 1]>>
                \o Chars("@dom.co ")])

BulkDocument ==
    [head |-> <<>>,
     body |-> <<[El EXCEPT !.tag = "pre", !.text = BulkText(MaxResults + BulkExtra)],
                [El EXCEPT !.tag = "a", !.href = Chars("mailto:Jo@Site.io?subject=Hi"), !.text = Chars("Jo")]>>]

Documents ==
    {[head |-> h, body |-> b] : h \in Picks(HeadPool, MaxHead), b \in Picks(BodyPool, MaxBody)}
      \cup {BulkDocument,
            [head |-> <<>>,
             body |-> <<[El EXCEPT !.tag = "span", !.dataEmail = Chars(""),
                                   !.dataContact = [i \in 1..60 |-> "a"] \o <<"@">>
                                                     \o [i \in 1..40 |-> "b"] \o Chars(".org")]>>]}

(***************************************************************************)
(* The strings given to the validators and to the scanner on their own:    *)
(* every concatenation of at most MaxTokens tokens, and the edge cases of  *)
(* the length limits and of the pattern checks.                            *)
(***************************************************************************)
MaxTokens == 3

Tokens == {Chars("a@"), Chars("b.co"), <<".">>, <<"-">>, <<"@">>, Chars("<b>"), <<"A">>, <<" ">>}

RECURSIVE TokenStrings(_)
TokenStrings(n) ==
    IF n = 0 THEN {<<>>}
    ELSE TokenStrings(n - 1) \cup {s \o t : s \in TokenStrings(n - 1), t \in Tokens}

EdgeInputs ==
    {Chars("user@example.com"), Chars("a..b@domain.com"), Chars("a--b@domain.com"),
     Chars("a@b..com"), Chars("a@b--c.com"), Chars("user@localhost"),
     Chars("amy@b.co,cy@d.co"), Chars("a@b.co@c"), Chars("a@b.c"), Chars("a@b.abcdef"),
     Chars("a@b.abcdefg"), Chars(".a@b.co"),
     Chars("test@example.com"), Chars("user.name@domain.co.uk"), Chars("test+tag@gmail.com"),
     Chars("user@subdomain.example.com"), Chars("invalid-email"), Chars("@example.com"),
     Chars("test@"), Chars("test..email@example.com"), Chars("test@example"), Chars("a.@b.co"),
     Chars("<script>a@b.co"), Chars("<SCRIPT a@b.co"), Chars("<img src=x>a@b.co"),
     Chars("</a>a@b.co"), Chars("javascript:a@b.co"), Chars("JavaScript:a@b.co"),
     Chars("vbscript:a@b.co"), Chars("VBScript:a@b.co"), Chars("onclick=a@b.co"),
     Chars("ONLOAD =a@b.co"), Chars("on=a@b.co"), Chars("data:text/html,a@b.co"),
     Chars("DATA: Text/HTML,a@b.co"), Chars("data:image/png,a@b.co"),
     Chars("expression (a@b.co"), Chars("Write to a..b@domain.com today."),
     Chars("Mail a--b@domain.com or c@d.org, then a@b..com."),
     [i \in 1..64 |-> "a"] \o Chars("@b.co"),
     [i \in 1..65 |-> "a"] \o Chars("@b.co"),
     Chars("a@") \o [i \in 1..249 |-> "b"] \o Chars(".co"),
     Chars("a@") \o [i \in 1..250 |-> "b"] \o Chars(".co")}

Inputs == TokenStrings(MaxTokens) \cup EdgeInputs

(***************************************************************************)
(* The state: the document of the page, the Set the last extraction had    *)
(* collected, the list it handed to its caller, whether it caught an       *)
(* exception, and which function ran last; and for the functions called    *)
(* on a string of their own, the string given and the validator's verdict. *)
(***************************************************************************)
VARIABLES doc, emails, result, caught, last, input, verdict, extractedEmails, removeDupes, lastIndex, storage, badge, response, sender, delivered, isExtensionActive, tabMessage, reply, sendResult, pending, isExtracting, extractions, popupUi

vars == <<doc, emails, result, caught, last, input, verdict, extractedEmails, removeDupes, lastIndex, storage, badge, response, sender, delivered, isExtensionActive, tabMessage, reply, sendResult, pending, isExtracting, extractions, popupUi>>

Start ==
    /\ emails = <<>>
    /\ result = <<>>
    /\ caught = FALSE
    /\ last = "none"
    /\ verdict = "none"
    /\ extractedEmails = <<>>
    /\ removeDupes = TRUE
    /\ lastIndex = [EmailExtractor |-> 0, performanceTest |-> 0, atCall |-> 0]
    /\ storage = [extractedEmails |-> <<>>, pageData |-> [present |-> FALSE, emails |-> <<>>], currentPageEmails |-> [present |-> FALSE, emails |-> <<>>]]
    /\ badge = [tab |-> "", global |-> ""]
    /\ response = [calls |-> 0, success |-> FALSE]
    /\ sender = [id |-> "none", tab |-> "none"]
    /\ delivered = 0
    /\ isExtensionActive = TRUE
    /\ tabMessage = [type |-> "none", action |-> "none", origin |-> "none"]
    /\ reply = [to |-> "none", success |-> FALSE, error |-> "", extracted |-> FALSE]
    /\ sendResult = [sent |-> FALSE, callback |-> "none", returned |-> FALSE]
    /\ pending = <<>>
    /\ isExtracting = FALSE
    /\ extractions = <<>>
    /\ popupUi = [script |-> "none", disabled |-> FALSE, status |-> ""]

Init == doc \in Documents /\ input = <<>> /\ Start

\* EmailExtractor.extractEmails(): the Set of the six sources, then
\* Array.from(emails).filter(...)
ExtractEmails ==
    \E collected \in {collectEmails(doc)} :
        /\ emails' = collected
        /\ result' = SelectSeq(collected, keepEmail)
        /\ caught' = FALSE
        /\ last' = "extractEmails"
        /\ UNCHANGED <<doc, input, verdict, extractedEmails, removeDupes, lastIndex, storage, badge, response, sender, delivered, isExtensionActive, tabMessage, reply, sendResult, pending, isExtracting, extractions, popupUi>>

\* extractEmailsFromPage(): extractor.extractEmails(), the filter, which
\* returns or throws, and the limit; the catch returns []
ExtractEmailsFromPage ==
    \E extracted \in {classExtractEmails(doc)} :
        \E filtered \in {filterFalsePositives(extracted)} :
            /\ emails' = extracted
            /\ result' = limitResults(filtered)
            /\ caught' = filtered.threw
            /\ last' = "extractEmailsFromPage"
            /\ UNCHANGED <<doc, input, verdict, extractedEmails, removeDupes, lastIndex, storage, badge, response, sender, delivered, isExtensionActive, tabMessage, reply, sendResult, pending, isExtracting, extractions, popupUi>>

Next == ExtractEmails \/ ExtractEmailsFromPage

Spec == Init /\ [][Next]_vars

(***************************************************************************)
(* The validators and the scanner called on a string of their own.         *)
(***************************************************************************)
InitValidator == doc = [head |-> <<>>, body |-> <<>>] /\ input \in Inputs /\ Start

\* EmailExtractor.isValidEmail(input)
IsValidEmail ==
    /\ verdict' = (IF isValidEmail(input) THEN "valid" ELSE "invalid")
    /\ last' = "isValidEmail"
    /\ UNCHANGED <<doc, emails, result, caught, input, extractedEmails, removeDupes, lastIndex, storage, badge, response, sender, delivered, isExtensionActive, tabMessage, reply, sendResult, pending, isExtracting, extractions, popupUi>>

\* the class's isValidEmail(input)
ClassIsValidEmail ==
    /\ verdict' = (IF classIsValidEmail(input) THEN "valid" ELSE "invalid")
    /\ last' = "classIsValidEmail"
    /\ UNCHANGED <<doc, emails, result, caught, input, extractedEmails, removeDupes, lastIndex, storage, badge, response, sender, delivered, isExtensionActive, tabMessage, reply, sendResult, pending, isExtracting, extractions, popupUi>>

\* EmailExtractor.extractFromText(input)
ExtractFromText ==
    /\ result' = extractFromText(input)
    /\ last' = "extractFromText"
    /\ UNCHANGED <<doc, emails, caught, input, verdict, extractedEmails, removeDupes, lastIndex, storage, badge, response, sender, delivered, isExtensionActive, tabMessage, reply, sendResult, pending, isExtracting, extractions, popupUi>>

NextValidator == IsValidEmail \/ ClassIsValidEmail \/ ExtractFromText

SpecValidator == InitValidator /\ [][NextValidator]_vars

(***************************************************************************)
(* Pages that hold one mailto link: the href is "mailto:" followed by at   *)
(* most MaxLinkTokens tokens.  The same two extractions run on them.       *)
(***************************************************************************)
MaxLinkTokens == 3

LinkTokens == {Chars("Jo@Site.io"), Chars("Amy@"), <<"?">>, <<" ">>, <<".">>, Chars("x=y")}

RECURSIVE LinkStrings(_)
LinkStrings(n) ==
    IF n = 0 THEN {<<>>}
    ELSE LinkStrings(n - 1) \cup {s \o t : s \in LinkStrings(n - 1), t \in LinkTokens}

MailtoDocuments ==
    {[head |-> <<>>,
      body |-> <<[El EXCEPT !.tag = "a", !.href = MailtoPrefix \o s, !.text = Chars("Jo")]>>] :
       s \in LinkStrings(MaxLinkTokens)}

InitMailto == doc \in MailtoDocuments /\ input = <<>> /\ Start

SpecMailto == InitMailto /\ [][Next]_vars

(***************************************************************************)
(* popup.js: the list of addresses the popup keeps (extractedEmails), the  *)
(* "remove duplicates" checkbox, and utils.sanitizeEmails, which every     *)
(* handler that changes the list passes it through.                        *)
(***************************************************************************)
\* s.replace(/<[^>]*>/, ''): only the first tag is removed
replaceFirstTag(s) ==
    IF \E i \in 1..Len(s) : s[i] = "<" /\ \E j \in (i + 1)..Len(s) : s[j] = ">"
    THEN LET i == CHOOSE i \in 1..Len(s) : s[i] = "<" /\ \A k \in 1..(i - 1) : s[k] # "<"
             j == CHOOSE j \in (i + 1)..Len(s) : s[j] = ">" /\ \A k \in (i + 1)..(j - 1) : s[k] # ">"
         IN SubSeq(s, 1, i - 1) \o SubSeq(s, j + 1, Len(s))
    ELSE s

RECURSIVE replaceTags(_)
\* s.replace(/<[^>]*>/g, ''): each match runs from a "<" to the first ">"
\* after it, and the search goes on after the match
replaceTags(s) ==
    IF \E i \in 1..Len(s) : s[i] = "<" /\ \E j \in (i + 1)..Len(s) : s[j] = ">"
    THEN LET i == CHOOSE i \in 1..Len(s) : s[i] = "<" /\ \A k \in 1..(i - 1) : s[k] # "<"
             j == CHOOSE j \in (i + 1)..Len(s) : s[j] = ">" /\ \A k \in (i + 1)..(j - 1) : s[k] # ">"
         IN SubSeq(s, 1, i - 1) \o replaceTags(SubSeq(s, j + 1, Len(s)))
    ELSE s

\* utils.removeDuplicates: [...new Set(emails.map(email => email.toLowerCase()))]
removeDuplicates(list) == addAll(<<>>, [i \in 1..Len(list) |-> toLowerCase(list[i])])

\* utils.isValidEmail: /^[^\s@]+@[^\s@]+\.[^\s@]+$/.test(email)
utilsIsValidEmail(email) ==
    /\ \A i \in 1..Len(email) : email[i] \notin Spaces
    /\ \E a \in 2..Len(email) :
          /\ email[a] = "@"
          /\ \A i \in 1..Len(email) : email[i] = "@" => i = a
          /\ \E d \in (a + 2)..(Len(email) - 1) : email[d] = "."

\* the map of sanitizeEmails
sanitized(email) ==
    LET stripped == replaceTags(toLowerCase(trim(email)))
    IN substring(stripped, 0, Min(254, Len(stripped)))

\* the second filter of sanitizeEmails
sanitizedAccepted(email) ==
    /\ Len(email) > 0
    /\ Len(email) <= 254
    /\ ~ \/ TestLiteralI(email, Chars("<script"))
         \/ TestLiteralI(email, Chars("javascript:"))
         \/ TestEventHandler(email)
         \/ TestDataHtml(email)
    /\ utilsIsValidEmail(email)

\* utils.sanitizeEmails(list, removeDupes), for a list that is an array: the
\* handlers pass [...extractedEmails, ...newEmails] and extractedEmails
sanitizeEmails(list, dupes) ==
    LET strings == SelectSeq(list, truthy)
        mapped == [i \in 1..Len(strings) |-> sanitized(strings[i])]
        cleaned == SelectSeq(mapped, sanitizedAccepted)
    IN slice(IF dupes THEN removeDuplicates(cleaned) ELSE cleaned, 1000)

MaxKept == 2
PopupExtra == 1

\* entries of the lists handed to emailManager.addEmails
PopupPool ==
    {Chars("Jo@Site.io"), Chars(" jo@site.io "), Chars("bo@web.de"), Chars("amy@x.org"), Chars("<b>Amy@X.org</b>"),
     Chars("<i><b>kim@x.org"), Chars("kim@x.org<"), Chars("a@b.co<script"), Chars("x@y"),
     <<>>, Null}

RECURSIVE PopupLists(_)
PopupLists(n) ==
    IF n = 0 THEN {<<>>}
    ELSE PopupLists(n - 1) \cup {Append(l, e) : l \in PopupLists(n - 1), e \in PopupPool}

\* n distinct addresses
BulkEmails(n) ==
    [k \in 1..n |->
        <<DigitSeq[((k \div 1000) % 10) + 1], DigitSeq[((k \div 100) % 10) + 1],
          DigitSeq[((k \div 10) % 10) + 1], DigitSeq[(k % 10) + 1]>> \o Chars("@dom.co")]

\* the lists handed to emailManager.addEmails: short lists, a list of more
\* addresses than sanitizeEmails keeps, and an address of 259 characters
NewEmails ==
    PopupLists(MaxKept)
      \cup {BulkEmails(1000 + PopupExtra), <<Chars("amy@x.org") \o [i \in 1..250 |-> "g"]>>}

\* the popup when it opens: no addresses; the change listener of the checkbox
\* reaches both of its states
InitPopup == doc = [head |-> <<>>, body |-> <<>>] /\ input = <<>> /\ Start

\* emailManager.addEmails(newEmails), taken while the list is empty or holds,
\* with the new entries, at most MaxKept entries
AddEmails ==
    /\ \E newEmails \in NewEmails :
          /\ Len(extractedEmails) = 0 \/ Len(extractedEmails) + Len(newEmails) <= MaxKept
          /\ extractedEmails' = sanitizeEmails(extractedEmails \o newEmails, removeDupes)
    /\ last' = "addEmails"
    /\ UNCHANGED <<doc, emails, result, caught, input, verdict, removeDupes, lastIndex, storage, badge, response, sender, delivered, isExtensionActive, tabMessage, reply, sendResult, pending, isExtracting, extractions, popupUi>>

\* emailManager.clearEmails()
ClearEmails ==
    /\ extractedEmails' = <<>>
    /\ last' = "clearEmails"
    /\ UNCHANGED <<doc, emails, result, caught, input, verdict, removeDupes, lastIndex, storage, badge, response, sender, delivered, isExtensionActive, tabMessage, reply, sendResult, pending, isExtracting, extractions, popupUi>>

\* the change listener of the "remove duplicates" checkbox
RemoveDuplicatesChange ==
    /\ removeDupes' = ~removeDupes
    /\ extractedEmails' = (IF Len(extractedEmails) > 0
                           THEN sanitizeEmails(extractedEmails, removeDupes')
                           ELSE extractedEmails)
    /\ last' = "removeDuplicatesChange"
    /\ UNCHANGED <<doc, emails, result, caught, input, verdict, lastIndex, storage, badge, response, sender, delivered, isExtensionActive, tabMessage, reply, sendResult, pending, isExtracting, extractions, popupUi>>

NextPopup == AddEmails \/ ClearEmails \/ RemoveDuplicatesChange

SpecPopup == InitPopup /\ [][NextPopup]_vars

(***************************************************************************)
(* The three extractFromText called one after another on texts of their    *)
(* own.  The object of content.js and the object of performance-test.js    *)
(* each keep one regular expression for all their calls; lastIndex holds   *)
(* where each was left, and where the one of the last call stood when the  *)
(* call began.                                                             *)
(***************************************************************************)
ScanExtra == 1

\* short texts of at most two pieces, with and without a comma between them
ScanTexts ==
    LET pieces == {<<>>, Chars("Jo@Site.io"), Chars("amy@x.org"), Chars("jo@site.io"), Chars("x@y"), <<" ">>}
    IN {s \o t : s \in pieces, t \in pieces} \cup {s \o <<",">> \o t : s \in pieces, t \in pieces}

InitScanner == doc = [head |-> <<>>, body |-> <<>>] /\ input = <<>> /\ Start

\* EmailExtractor.extractFromText(text) of content.js
ScanObject ==
    /\ \E text \in ScanTexts :
          \E r \in {extractFromTextAt(text, lastIndex.EmailExtractor)} :
              /\ input' = text
              /\ result' = r.emails
              /\ lastIndex' = [lastIndex EXCEPT !.EmailExtractor = r.lastIndex, !.atCall = lastIndex.EmailExtractor]
    /\ last' = "extractFromText"
    /\ UNCHANGED <<doc, emails, caught, verdict, extractedEmails, removeDupes, storage, badge, response, sender, delivered, isExtensionActive, tabMessage, reply, sendResult, pending, isExtracting, extractions, popupUi>>

\* EmailExtractor.extractFromText(text) of performance-test.js, also on a
\* text of more addresses than it returns
ScanPerformanceTest ==
    /\ \E text \in ScanTexts \cup {BulkText(100 + ScanExtra)} :
          \E r \in {perfExtractFromText(text, lastIndex.performanceTest)} :
              /\ input' = text
              /\ result' = r.emails
              /\ lastIndex' = [lastIndex EXCEPT !.performanceTest = r.lastIndex, !.atCall = lastIndex.performanceTest]
    /\ last' = "performanceTest.extractFromText"
    /\ UNCHANGED <<doc, emails, caught, verdict, extractedEmails, removeDupes, storage, badge, response, sender, delivered, isExtensionActive, tabMessage, reply, sendResult, pending, isExtracting, extractions, popupUi>>

\* the class's extractFromText(text); the text of more than 1000 addresses is
\* given to the first call only
ScanClass ==
    /\ \E text \in ScanTexts \cup (IF last = "none" THEN {BulkText(1000 + ScanExtra)} ELSE {}) :
          /\ input' = text
          /\ result' = classExtractFromText(text)
    /\ last' = "classExtractFromText"
    /\ UNCHANGED <<doc, emails, caught, verdict, extractedEmails, removeDupes, lastIndex, storage, badge, response, sender, delivered, isExtensionActive, tabMessage, reply, sendResult, pending, isExtracting, extractions, popupUi>>

NextScanner == ScanObject \/ ScanPerformanceTest \/ ScanClass

SpecScanner == InitScanner /\ [][NextScanner]_vars

(***************************************************************************)
(* The background script.  storage is chrome.storage.local (the keys the   *)
(* message handlers write), badge the text of the badge of the one tab of  *)
(* the model and of the global badge, response what the handler passed to  *)
(* sendResponse and how many times it called it, sender the sender of the  *)
(* message handled last.  A message carries its type, whether its emails   *)
(* payload (message.emails, or message.pageData.emails) is an array, the   *)
(* array, message.removeDuplicates and message.count.  The sender's tab is *)
(* open, closed (chrome.tabs.get fails) or absent.  Storage operations     *)
(* succeed, and a handler runs to the end of its callbacks before the next *)
(* message is delivered.  background.js is version 1.1.0 of the script of  *)
(* version 1.0.0: once it has handled a message the older one runs no more.*)
(***************************************************************************)
RuntimeId == "chrome.runtime.id"

MaxDelivered == 2

\* the emails.filter of version 1.0.0: strings of 1 to 254 characters that
\* match /^[^\s@]+@[^\s@]+\.[^\s@]+$/
validEmails(list) ==
    SelectSeq(list, LAMBDA email : email # Null /\ Len(email) > 0 /\ Len(email) <= 254 /\ utilsIsValidEmail(email))

\* updateBadge(count, tabId): the badge of the tab, the global badge when
\* there is no tab; no badge is set for a tab that does not exist
updateBadge(b, count, tab) ==
    LET text == IF count > 0 THEN (IF count > 99 THEN "99+" ELSE ToString(count)) ELSE ""
    IN CASE tab = "open" -> [b EXCEPT !.tab = text]
         [] tab = "none" -> [b EXCEPT !.global = text]
         [] OTHER -> b

\* what sendResponse is called with
responded(success) == [calls |-> 1, success |-> success]

\* processMessage(message, sender, sendResponse) of background.js
processMessage(st, b, message, tab) ==
    CASE message.type = "storePageEmails" ->
           IF message.isArray
           THEN [storage |-> [st EXCEPT !.pageData = [present |-> TRUE, emails |-> message.emails]],
                 badge |-> updateBadge(b, Len(message.emails), tab),
                 response |-> responded(TRUE)]
           ELSE [storage |-> st, badge |-> b, response |-> responded(FALSE)]
      [] message.type = "getStoredEmails" ->
           [storage |-> st, badge |-> b, response |-> responded(TRUE)]
      [] message.type = "clearStoredEmails" ->
           [storage |-> [st EXCEPT !.extractedEmails = <<>>, !.pageData = [present |-> FALSE, emails |-> <<>>]],
            badge |-> updateBadge(b, 0, tab),
            response |-> responded(TRUE)]
      [] message.type = "addEmails" ->
           IF message.isArray
           THEN LET newEmails == st.extractedEmails \o message.emails
                    finalEmails == IF message.removeDuplicates THEN addAll(<<>>, newEmails) ELSE newEmails
                IN [storage |-> [st EXCEPT !.extractedEmails = finalEmails],
                    badge |-> updateBadge(b, Len(finalEmails), tab),
                    response |-> responded(TRUE)]
           ELSE [storage |-> st, badge |-> b, response |-> responded(FALSE)]
      [] OTHER -> [storage |-> st, badge |-> b, response |-> responded(FALSE)]

\* the onMessage listener of version 1.0.0
part000OnMessage(st, b, message, from) ==
    IF from.id # RuntimeId THEN [storage |-> st, badge |-> b, response |-> [calls |-> 0, success |-> FALSE]]
    ELSE CASE message.type = "storePageEmails" ->
                IF message.isArray
                THEN [storage |-> [st EXCEPT !.currentPageEmails =
                                                [present |-> TRUE, emails |-> validEmails(message.emails)]],
                      badge |-> updateBadge(b, Len(validEmails(message.emails)), from.tab),
                      response |-> responded(TRUE)]
                ELSE [storage |-> st, badge |-> b, response |-> responded(FALSE)]
           [] message.type = "pageEmailsDetected" ->
                [storage |-> st, badge |-> updateBadge(b, message.count, from.tab), response |-> responded(TRUE)]
           [] message.type = "emailsExtracted" ->
                IF message.isArray
                THEN LET allEmails == st.extractedEmails \o validEmails(message.emails)
                         uniqueEmails ==
                             slice(addAll(<<>>, [i \in 1..Len(allEmails) |-> toLowerCase(allEmails[i])]), 1000)
                     IN [storage |-> [st EXCEPT !.extractedEmails = uniqueEmails],
                         badge |-> b,
                         response |-> responded(TRUE)]
                ELSE [storage |-> st, badge |-> b, response |-> [calls |-> 0, success |-> FALSE]]
           [] message.type = "getSettings" ->
                [storage |-> st, badge |-> b, response |-> responded(TRUE)]
           [] OTHER -> [storage |-> st, badge |-> b, response |-> responded(FALSE)]

\* the messages delivered to the listener; "" is a message without a type
Messages ==
    LET lists == {<<Chars("Jo@Site.io")>>, <<Chars("x@y")>>, <<Chars("Jo@Site.io"), Chars("jo@site.io")>>}
        plain == [type |-> "", isArray |-> FALSE, emails |-> <<>>, removeDuplicates |-> FALSE, count |-> 0]
    IN {[plain EXCEPT !.type = t, !.isArray = TRUE, !.emails = l, !.removeDuplicates = r] :
            t \in {"storePageEmails", "emailsExtracted", "addEmails"}, l \in lists, r \in BOOLEAN}
         \cup {[plain EXCEPT !.type = t] :
                 t \in {"storePageEmails", "emailsExtracted", "addEmails", "getStoredEmails",
                        "clearStoredEmails", "getSettings", "unknown", ""}}
         \cup {[plain EXCEPT !.type = "pageEmailsDetected", !.count = c] : c \in {0, 3, 120}}

Senders == [id : {RuntimeId, "another extension"}, tab : {"open", "closed", "none"}]

InitBackground == doc = [head |-> <<>>, body |-> <<>>] /\ input = <<>> /\ Start

\* chrome.runtime.onMessage listener of background.js
OnMessage ==
    /\ delivered < MaxDelivered
    /\ \E message \in Messages, from \in Senders :
          \E out \in {IF message.type = "" \/ from.tab = "closed"
                      THEN [storage |-> storage, badge |-> badge, response |-> responded(FALSE)]
                      ELSE processMessage(storage, badge, message, from.tab)} :
              /\ storage' = out.storage
              /\ badge' = out.badge
              /\ response' = out.response
              /\ sender' = from
    /\ delivered' = delivered + 1
    /\ last' = "background.js onMessage"
    /\ UNCHANGED <<doc, emails, result, caught, input, verdict, extractedEmails, removeDupes, lastIndex, isExtensionActive, tabMessage, reply, sendResult, pending, isExtracting, extractions, popupUi>>

\* chrome.runtime.onMessage listener of version 1.0.0
OnMessagePart000 ==
    /\ delivered < MaxDelivered
    /\ last # "background.js onMessage"
    /\ \E message \in Messages, from \in Senders :
          \E out \in {part000OnMessage(storage, badge, message, from)} :
              /\ storage' = out.storage
              /\ badge' = out.badge
              /\ response' = out.response
              /\ sender' = from
    /\ delivered' = delivered + 1
    /\ last' = "part_000 onMessage"
    /\ UNCHANGED <<doc, emails, result, caught, input, verdict, extractedEmails, removeDupes, lastIndex, isExtensionActive, tabMessage, reply, sendResult, pending, isExtracting, extractions, popupUi>>

NextBackground == OnMessage \/ OnMessagePart000

SpecBackground == InitBackground /\ [][NextBackground]_vars

(***************************************************************************)
(* The extraction the popup starts.  extractEmails of popup.js and         *)
(* extractEmailsFromCurrentPage of its other version are async functions:  *)
(* a call runs to its first await and returns, and each promise that       *)
(* settles resumes it until the next await or through catch and finally to *)
(* its end.  extractions holds, for every call that has set isExtracting   *)
(* and has not left its finally block, the promise it awaits.  A promise   *)
(* resolves with a value (addresses, a tab, true), resolves with none (no  *)
(* addresses, no tab, false) or rejects, as the browser and the page       *)
(* decide.  popupUi is the script the popup runs, the disabled property of *)
(* the Extract button and the kind of the status shown last.               *)
(***************************************************************************)
MaxExtractions == 2

\* a guard that lets every trigger through
neverExtracting(flag) == FALSE

\* if (isExtracting) return;
alreadyExtracting(flag) == flag

\* extractEmails of popup.js resumed when the promise it awaits has settled:
\* the promise awaited next or "exit", the status shown, and whether
\* emailManager.addEmails is called
extractEmailsAwait(awaited, outcome) ==
    CASE awaited = "storage.local.get" ->
           IF outcome = "value" THEN [next |-> "exit", status |-> "success", add |-> TRUE]
           ELSE IF outcome = "none" THEN [next |-> "tabs.query", status |-> "", add |-> FALSE]
           ELSE [next |-> "exit", status |-> "error", add |-> FALSE]
      [] awaited = "tabs.query" ->
           IF outcome = "value" THEN [next |-> "scripting.executeScript", status |-> "", add |-> FALSE]
           ELSE [next |-> "exit", status |-> "error", add |-> FALSE]
      [] awaited = "scripting.executeScript" ->
           IF outcome = "value" THEN [next |-> "exit", status |-> "success", add |-> TRUE]
           ELSE IF outcome = "none" THEN [next |-> "exit", status |-> "warning", add |-> FALSE]
           ELSE [next |-> "tabs.sendMessage", status |-> "", add |-> FALSE]
      [] OTHER ->
           IF outcome = "value" THEN [next |-> "exit", status |-> "success", add |-> TRUE]
           ELSE IF outcome = "none" THEN [next |-> "exit", status |-> "warning", add |-> FALSE]
           ELSE [next |-> "exit", status |-> "error", add |-> FALSE]

\* extractEmailsFromCurrentPage resumed when the promise it awaits has settled
extractEmailsFromCurrentPageAwait(awaited, outcome) ==
    CASE awaited = "tabs.query" ->
           IF outcome = "value" THEN [next |-> "isContentScriptLoaded", status |-> "", add |-> FALSE]
           ELSE [next |-> "exit", status |-> "error", add |-> FALSE]
      [] awaited = "isContentScriptLoaded" ->
           IF outcome = "value" THEN [next |-> "tryExtractWithRetry", status |-> "", add |-> FALSE]
           ELSE IF outcome = "none" THEN [next |-> "forceInjectContentScript", status |-> "warning", add |-> FALSE]
           ELSE [next |-> "exit", status |-> "error", add |-> FALSE]
      [] awaited = "forceInjectContentScript" ->
           IF outcome = "rejects" THEN [next |-> "exit", status |-> "error", add |-> FALSE]
           ELSE [next |-> "tryExtractWithRetry", status |-> "", add |-> FALSE]
      [] OTHER ->
           IF outcome = "value" THEN [next |-> "exit", status |-> "success", add |-> TRUE]
           ELSE IF outcome = "none" THEN [next |-> "exit", status |-> "warning", add |-> FALSE]
           ELSE [next |-> "exit", status |-> "error", add |-> FALSE]

\* a call of chromeComm.extractEmails (the Extract button, the shortcut):
\* up to its first await, or to its end when chrome.scripting is missing
PopupExtractEmails ==
    /\ popupUi.script \in {"none", "popup.js"}
    /\ Len(extractions) < MaxExtractions
    /\ \E scripting \in BOOLEAN :
          IF alreadyExtracting(isExtracting)
          THEN /\ last' = "extractEmails returned at once"
               /\ popupUi' = [popupUi EXCEPT !.script = "popup.js"]
               /\ UNCHANGED <<isExtracting, extractions>>
          ELSE IF ~scripting
          THEN /\ last' = "extractEmails"
               /\ isExtracting' = FALSE
               /\ popupUi' = [script |-> "popup.js", disabled |-> FALSE, status |-> "error"]
               /\ UNCHANGED extractions
          ELSE /\ last' = "extractEmails"
               /\ isExtracting' = TRUE
               /\ popupUi' = [popupUi EXCEPT !.script = "popup.js", !.disabled = TRUE]
               /\ extractions' = Append(extractions, "storage.local.get")
    /\ UNCHANGED <<doc, emails, result, caught, input, verdict, removeDupes, lastIndex, storage, badge, response, sender, delivered, isExtensionActive, tabMessage, reply, sendResult, pending, extractedEmails>>

\* a promise awaited by extractEmails settles
PopupExtractEmailsResume ==
    /\ popupUi.script = "popup.js"
    /\ \E i \in 1..Len(extractions), outcome \in {"value", "none", "rejects"},
          found \in {<<Chars("Jo@Site.io")>>, <<Chars("amy@x.org"), Chars("bo@web.de")>>} :
          \E step \in {extractEmailsAwait(extractions[i], outcome)} :
              IF step.next = "exit"
              THEN /\ extractedEmails' = IF step.add
                                         THEN sanitizeEmails(extractedEmails \o found, removeDupes)
                                         ELSE extractedEmails
                   /\ isExtracting' = FALSE
                   /\ popupUi' = [popupUi EXCEPT !.disabled = FALSE, !.status = step.status]
                   /\ extractions' = [j \in 1..(Len(extractions) - 1) |->
                                        IF j < i THEN extractions[j] ELSE extractions[j + 1]]
              ELSE /\ extractions' = [extractions EXCEPT ![i] = step.next]
                   /\ UNCHANGED <<extractedEmails, isExtracting, popupUi>>
    /\ last' = "extractEmails resumed"
    /\ UNCHANGED <<doc, emails, result, caught, input, verdict, removeDupes, lastIndex, storage, badge, response, sender, delivered, isExtensionActive, tabMessage, reply, sendResult, pending>>

\* a call of emailExtractor.extractEmailsFromCurrentPage, up to its first
\* await
ExtractEmailsFromCurrentPage ==
    /\ popupUi.script \in {"none", "part_002"}
    /\ Len(extractions) < MaxExtractions
    /\ IF alreadyExtracting(isExtracting)
       THEN /\ last' = "extractEmailsFromCurrentPage returned at once"
            /\ popupUi' = [popupUi EXCEPT !.script = "part_002", !.status = "warning"]
            /\ UNCHANGED <<isExtracting, extractions>>
       ELSE /\ last' = "extractEmailsFromCurrentPage"
            /\ isExtracting' = TRUE
            /\ popupUi' = [popupUi EXCEPT !.script = "part_002", !.disabled = TRUE]
            /\ extractions' = Append(extractions, "tabs.query")
    /\ UNCHANGED <<doc, emails, result, caught, input, verdict, removeDupes, lastIndex, storage, badge, response, sender, delivered, isExtensionActive, tabMessage, reply, sendResult, pending, extractedEmails>>

\* a promise awaited by extractEmailsFromCurrentPage settles
ExtractEmailsFromCurrentPageResume ==
    /\ popupUi.script = "part_002"
    /\ \E i \in 1..Len(extractions), outcome \in {"value", "none", "rejects"},
          found \in {<<Chars("Jo@Site.io")>>, <<Chars("amy@x.org"), Chars("bo@web.de")>>} :
          \E step \in {extractEmailsFromCurrentPageAwait(extractions[i], outcome)} :
              IF step.next = "exit"
              THEN /\ extractedEmails' = IF step.add
                                         THEN sanitizeEmails(extractedEmails \o found, removeDupes)
                                         ELSE extractedEmails
                   /\ isExtracting' = FALSE
                   /\ popupUi' = [popupUi EXCEPT !.disabled = FALSE, !.status = step.status]
                   /\ extractions' = [j \in 1..(Len(extractions) - 1) |->
                                        IF j < i THEN extractions[j] ELSE extractions[j + 1]]
              ELSE /\ extractions' = [extractions EXCEPT ![i] = step.next]
                   /\ popupUi' = IF step.status = "" THEN popupUi ELSE [popupUi EXCEPT !.status = step.status]
                   /\ UNCHANGED <<extractedEmails, isExtracting>>
    /\ last' = "extractEmailsFromCurrentPage resumed"
    /\ UNCHANGED <<doc, emails, result, caught, input, verdict, removeDupes, lastIndex, storage, badge, response, sender, delivered, isExtensionActive, tabMessage, reply, sendResult, pending>>

NextExtraction ==
    \/ PopupExtractEmails
    \/ PopupExtractEmailsResume
    \/ ExtractEmailsFromCurrentPage
    \/ ExtractEmailsFromCurrentPageResume

SpecExtraction == InitPopup /\ [][NextExtraction]_vars

(***************************************************************************)
(* The stored list under concurrent requests.  chrome.storage.local.get    *)
(* and set are asynchronous: a handler issues the get and returns, the     *)
(* callback of the get computes the new list from what the get read and    *)
(* issues the set, and the browser performs the set later.  pending holds  *)
(* the requests in the order they arrived: the addresses to add, the phase *)
(* (the get is issued, the set is issued, done) and the list the set is to *)
(* write.  The hourly timer of version 1.0.0 is a request of its own.      *)
(* Requests of the two versions of the script do not mix.                  *)
(***************************************************************************)
MaxRequests == 2

RequestLists ==
    {<<Chars("Jo@Site.io")>>, <<Chars("x@y"), Chars("amy@x.org")>>, <<Chars("Jo@Site.io"), Chars("bo@web.de")>>}

\* case 'addEmails' of processMessage: message.emails is an array, the get
\* is issued
ReceiveAddEmails ==
    /\ Len(pending) < MaxRequests
    /\ \A i \in 1..Len(pending) : pending[i].kind = "addEmails"
    /\ \E list \in RequestLists, dupes \in BOOLEAN :
          pending' = Append(pending, [kind |-> "addEmails", emails |-> list, removeDuplicates |-> dupes,
                                      phase |-> "get", write |-> <<>>])
    /\ last' = "addEmails"
    /\ UNCHANGED <<doc, emails, result, caught, input, verdict, extractedEmails, removeDupes, lastIndex, sender, delivered, isExtensionActive, tabMessage, reply, sendResult, storage, badge, response, isExtracting, extractions, popupUi>>

\* case 'emailsExtracted' of version 1.0.0: the valid addresses are
\* selected, the get is issued and the response sent
ReceiveEmailsExtracted ==
    /\ Len(pending) < MaxRequests
    /\ \A i \in 1..Len(pending) : pending[i].kind # "addEmails"
    /\ \E list \in RequestLists :
          /\ pending' = Append(pending, [kind |-> "emailsExtracted", emails |-> validEmails(list),
                                         removeDuplicates |-> TRUE, phase |-> "get", write |-> <<>>])
    /\ response' = responded(TRUE)
    /\ last' = "emailsExtracted"
    /\ UNCHANGED <<doc, emails, result, caught, input, verdict, extractedEmails, removeDupes, lastIndex, sender, delivered, isExtensionActive, tabMessage, reply, sendResult, storage, badge, isExtracting, extractions, popupUi>>

\* the setInterval callback of version 1.0.0: the get is issued
CleanupTick ==
    /\ Len(pending) < MaxRequests
    /\ \A i \in 1..Len(pending) : pending[i].kind # "addEmails"
    /\ pending' = Append(pending, [kind |-> "cleanup", emails |-> <<>>, removeDuplicates |-> FALSE,
                                   phase |-> "get", write |-> <<>>])
    /\ last' = "cleanup"
    /\ UNCHANGED <<doc, emails, result, caught, input, verdict, extractedEmails, removeDupes, lastIndex, sender, delivered, isExtensionActive, tabMessage, reply, sendResult, storage, badge, response, isExtracting, extractions, popupUi>>

\* the callback of chrome.storage.local.get of a pending request, with what
\* the store holds now: the list to write is computed and the set issued;
\* the timer issues a set only for more than 1000 addresses
StorageGetCallback ==
    /\ \E i \in 1..Len(pending) :
          /\ pending[i].phase = "get"
          /\ \E all \in {storage.extractedEmails \o pending[i].emails} :
                pending' =
                  [pending EXCEPT ![i] =
                     CASE pending[i].kind = "addEmails" ->
                            [@ EXCEPT !.phase = "set",
                                      !.write = IF pending[i].removeDuplicates THEN addAll(<<>>, all) ELSE all]
                       [] pending[i].kind = "emailsExtracted" ->
                            [@ EXCEPT !.phase = "set",
                                      !.write = slice(addAll(<<>>, [k \in 1..Len(all) |-> toLowerCase(all[k])]), 1000)]
                       [] OTHER ->
                            IF Len(all) > 1000
                            THEN [@ EXCEPT !.phase = "set", !.write = SubSeq(all, Len(all) - 499, Len(all))]
                            ELSE [@ EXCEPT !.phase = "done"]]
    /\ last' = "storage.get callback"
    /\ UNCHANGED <<doc, emails, result, caught, input, verdict, extractedEmails, removeDupes, lastIndex, sender, delivered, isExtensionActive, tabMessage, reply, sendResult, storage, badge, response, isExtracting, extractions, popupUi>>

\* chrome.storage.local.set of a pending request is performed; the callback
\* of 'addEmails' updates the badge and sends the response
StorageSet ==
    /\ \E i \in 1..Len(pending) :
          /\ pending[i].phase = "set"
          /\ storage' = [storage EXCEPT !.extractedEmails = pending[i].write]
          /\ pending' = [pending EXCEPT ![i].phase = "done"]
          /\ badge' = IF pending[i].kind = "addEmails"
                      THEN updateBadge(badge, Len(pending[i].write), "open")
                      ELSE badge
          /\ response' = IF pending[i].kind = "addEmails" THEN responded(TRUE) ELSE response
    /\ last' = "storage.set"
    /\ UNCHANGED <<doc, emails, result, caught, input, verdict, extractedEmails, removeDupes, lastIndex, sender, delivered, isExtensionActive, tabMessage, reply, sendResult, isExtracting, extractions, popupUi>>

NextStorage == ReceiveAddEmails \/ ReceiveEmailsExtracted \/ CleanupTick \/ StorageGetCallback \/ StorageSet

SpecStorage == InitBackground /\ [][NextStorage]_vars

(***************************************************************************)
(* The content script and the keyboard command.  tabMessage is the message *)
(* chrome.tabs.sendMessage has handed to the tab and the listener has not  *)
(* handled yet, with its origin (the command listener or the popup); reply *)
(* is what the listener registered by registerMessageListener answered,    *)
(* and whether it ran extractEmailsFromPage; sendResult is what the last   *)
(* sendMessageSafely did.  Whether the chrome APIs are there when a        *)
(* function looks, and what a chrome call fails with, is the browser's     *)
(* choice.                                                                 *)
(***************************************************************************)
\* a context check that looks at the chrome APIs only
isContextValidApisOnly(active, apis) == apis

\* isContextValid(): chrome.runtime with sendMessage and onMessage is there,
\* and isExtensionActive
isContextValid(active, apis) == apis /\ active

InitContent ==
    /\ doc \in {[head |-> <<>>, body |-> <<>>],
                [head |-> <<>>, body |-> <<[El EXCEPT !.tag = "p", !.text = Chars("Ask jo@site.io")]>>]}
    /\ input = <<>>
    /\ Start

\* chrome.commands.onCommand listener of background.js for 'extract-emails':
\* the active tab, if there is one and chrome.tabs.get finds it, is sent
\* { type: 'extractEmails' }
OnCommand ==
    /\ tabMessage.origin = "none"
    /\ \E tab \in {"open", "closed", "none"} :
          tabMessage' = IF tab = "open"
                        THEN [type |-> "extractEmails", action |-> "undefined", origin |-> "command"]
                        ELSE tabMessage
    /\ last' = "background.js onCommand"
    /\ UNCHANGED <<doc, emails, result, caught, input, verdict, extractedEmails, removeDupes, lastIndex, storage,
                   badge, response, sender, delivered, isExtensionActive, reply, sendResult, pending, isExtracting, extractions, popupUi>>

\* chrome.commands.onCommand listener of version 1.0.0: the active tab, if
\* there is one, is sent { action: 'extractEmails' }
OnCommandPart000 ==
    /\ tabMessage.origin = "none"
    /\ \E tab \in {"open", "none"} :
          tabMessage' = IF tab = "open"
                        THEN [type |-> "undefined", action |-> "extractEmails", origin |-> "command"]
                        ELSE tabMessage
    /\ last' = "part_000 onCommand"
    /\ UNCHANGED <<doc, emails, result, caught, input, verdict, extractedEmails, removeDupes, lastIndex, storage,
                   badge, response, sender, delivered, isExtensionActive, reply, sendResult, pending, isExtracting, extractions, popupUi>>

\* chrome.tabs.sendMessage of the popup: ping, extractEmails, refreshDetection
TabsSendMessage ==
    /\ tabMessage.origin = "none"
    /\ \E type \in {"ping", "extractEmails", "refreshDetection", "emailsDetected"} :
          tabMessage' = [type |-> type, action |-> "undefined", origin |-> "popup"]
    /\ last' = "popup tabs.sendMessage"
    /\ UNCHANGED <<doc, emails, result, caught, input, verdict, extractedEmails, removeDupes, lastIndex, storage,
                   badge, response, sender, delivered, isExtensionActive, reply, sendResult, pending, isExtracting, extractions, popupUi>>

\* the listener registered by registerMessageListener handles tabMessage;
\* thrown is what sendResponse throws inside the try block ("" when it
\* returns), and the catch block answers with it
ContentOnMessage ==
    /\ tabMessage.origin # "none"
    /\ \E apis \in BOOLEAN, thrown \in {"", "Extension context invalidated", "Attempting to use a disconnected port object"} :
          \E valid \in {isContextValid(isExtensionActive, apis)} :
              \E extracting \in {valid /\ tabMessage.type = "extractEmails"} :
                  \E extracted \in {IF extracting THEN classExtractEmails(doc) ELSE emails} :
                      \E filtered \in {filterFalsePositives(extracted)} :
                          /\ emails' = extracted
                          /\ result' = IF extracting THEN limitResults(filtered) ELSE result
                          /\ caught' = IF extracting THEN filtered.threw ELSE caught
                          /\ reply' =
                               IF thrown # ""
                               THEN [to |-> tabMessage.origin, success |-> FALSE, error |-> thrown,
                                     extracted |-> extracting]
                               ELSE IF ~valid
                               THEN [to |-> tabMessage.origin, success |-> FALSE,
                                     error |-> "Extension context invalidated", extracted |-> FALSE]
                               ELSE IF tabMessage.type \in {"extractEmails", "refreshDetection", "ping"}
                               THEN [to |-> tabMessage.origin, success |-> TRUE, error |-> "",
                                     extracted |-> extracting]
                               ELSE [to |-> tabMessage.origin, success |-> FALSE,
                                     error |-> "Unknown message type", extracted |-> FALSE]
                          /\ isExtensionActive' = IF thrown = "Extension context invalidated"
                                                  THEN FALSE
                                                  ELSE isExtensionActive
    /\ tabMessage' = [type |-> "none", action |-> "none", origin |-> "none"]
    /\ last' = "content.js onMessage"
    /\ UNCHANGED <<doc, input, verdict, extractedEmails, removeDupes, lastIndex, storage,
                   badge, response, sender, delivered, sendResult, pending, isExtracting, extractions, popupUi>>

\* sendMessageSafely(message, callback): outcome is what
\* chrome.runtime.sendMessage does
SendMessageSafely ==
    /\ \E apis \in BOOLEAN,
          outcome \in {"response", "throws", "lastError: Extension context invalidated",
                       "lastError: The message port closed before a response was received"} :
          IF ~isContextValid(isExtensionActive, apis)
          THEN /\ sendResult' = [sent |-> FALSE, callback |-> "failure", returned |-> FALSE]
               /\ UNCHANGED isExtensionActive
          ELSE /\ sendResult' = [sent |-> outcome # "throws",
                                 callback |-> IF outcome = "response" THEN "response" ELSE "failure",
                                 returned |-> outcome # "throws"]
               /\ isExtensionActive' = IF outcome = "lastError: Extension context invalidated"
                                       THEN FALSE
                                       ELSE isExtensionActive
    /\ last' = "sendMessageSafely"
    /\ UNCHANGED <<doc, emails, result, caught, input, verdict, extractedEmails, removeDupes, lastIndex, storage,
                   badge, response, sender, delivered, tabMessage, reply, pending, isExtracting, extractions, popupUi>>

NextContent == OnCommand \/ OnCommandPart000 \/ TabsSendMessage \/ ContentOnMessage \/ SendMessageSafely

SpecContent == InitContent /\ [][NextContent]_vars

(***************************************************************************)
(* Properties of the list an extraction hands to its caller.               *)
(***************************************************************************)
Returned == last \in {"extractEmails", "extractEmailsFromPage"}

\* seq without the later occurrences of its elements, in order
Distinct(seq) == SelectSeq([i \in 1..Len(seq) |-> IF \A j \in 1..(i - 1) : seq[j] # seq[i] THEN seq[i] ELSE Null],
                           LAMBDA x : x # Null)

\* what the five sources after the body text yield, in the order of discovery
DiscoveredAfterText(d) ==
    extractFromMailtoLinks(d) \o extractFromDataAttributes(d) \o extractFromInputFields(d)
      \o extractFromMetaTags(d) \o extractFromStructuredData(d)

\* what the six sources yield, in the order of discovery
Discovered(d) == extractFromText(getAllTextContent(d)) \o DiscoveredAfterText(d)

RECURSIVE MatchLoop(_, _, _)
\* the matches of emailRegex in text from left to right, each lower-cased and
\* trimmed: n calls of exec, composed by halves
MatchLoop(text, st, n) ==
    IF n = 0 THEN st
    ELSE IF n = 1
    THEN LET match == exec(text, st.lastIndex)
         IN IF ~match.found THEN [st EXCEPT !.done = TRUE]
            ELSE [list |-> Append(st.list, trim(toLowerCase(match.str))),
                  lastIndex |-> match.lastIndex, done |-> FALSE]
    ELSE LET half == MatchLoop(text, st, n \div 2)
         IN IF half.done THEN half ELSE MatchLoop(text, half, n - (n \div 2))
Matches(text) == MatchLoop(text, [list |-> <<>>, lastIndex |-> 0, done |-> FALSE], loopBound(text)).list

\* C1: the list an extraction hands to its caller has at most the maximum
\* of 500 entries.
C1_AtMostMaximum == Returned => Len(result) <= MaxResults

\* C2: no two entries of the list extractEmails returns are equal under
\* case-insensitive comparison, whichever sources they came from.
C2_NoCaseInsensitiveDuplicates ==
    last = "extractEmails" =>
        LET lower == [i \in 1..Len(result) |-> toLowerCase(result[i])]
        IN \A i \in 1..Len(result) : \A j \in (i + 1)..Len(result) : lower[i] # lower[j]

\* an address that the text gives in lower case and a data attribute in
\* mixed case is listed once
C2_Witness ==
    /\ last = "extractEmails"
    /\ \E i \in 1..Len(doc.body) : doc.body[i].dataContact = Chars("Sales@Company.org")
    /\ arrayIncludes(extractFromText(getAllTextContent(doc)), Chars("sales@company.org"))
    /\ Cardinality({i \in 1..Len(result) : result[i] = Chars("sales@company.org")}) = 1

\* C3: every entry of the list extractEmails returns passes isValidEmail as
\* returned, the entries validated before trimming and lower-casing too.
C3_EveryEntryValid ==
    last = "extractEmails" => \A i \in 1..Len(result) : isValidEmail(result[i])

\* C4: the list extractEmails returns holds no placeholder address and no
\* address containing localhost, 127.0.0.1, test., example. or demo.
C4_NoDenyListed ==
    last = "extractEmails" =>
        \A i \in 1..Len(result) :
            /\ result[i] \notin falsePositives
            /\ \A frag \in {Chars("localhost"), Chars("127.0.0.1"), Chars("test."),
                            Chars("example."), Chars("demo.")} :
                   \A k \in 0..Len(result[i]) : ~OccursAt(result[i], frag, k)

\* the page holds a placeholder address and an address at localhost, the
\* extraction has collected both and returned neither
C4_Witness ==
    /\ last = "extractEmails"
    /\ arrayIncludes(emails, Chars("test@test.com"))
    /\ arrayIncludes(emails, Chars("joe@localhost.nu"))
    /\ arrayIncludes(emails, Chars("admin@site.io"))
    /\ result = <<Chars("admin@site.io")>>

\* C5: the list is in order of first discovery: the sources in the order
\* body text, mailto links, data attributes, input fields, meta tags,
\* structured data; the matches of a text from left to right; and a later
\* duplicate neither moves nor replaces the earlier entry.
C5_FirstDiscoveryOrder ==
    last = "extractEmails" =>
        LET text == getAllTextContent(doc)
            fromText == extractFromText(text)
        IN /\ fromText = Distinct(SelectSeq(Matches(text), isValidEmail))
           /\ emails = Distinct(fromText \o DiscoveredAfterText(doc))
           /\ result = SelectSeq(emails, LAMBDA e : arrayIncludes(result, e))

\* a text gives two addresses, and a data attribute after it the second of
\* them again: the list keeps the order of the text
C5_Witness ==
    /\ last = "extractEmails"
    /\ Len(extractFromText(getAllTextContent(doc))) >= 2
    /\ \E i \in 1..Len(Discovered(doc)) : \E j \in (i + 1)..Len(Discovered(doc)) :
           Discovered(doc)[i] = Discovered(doc)[j]
    /\ Len(result) >= 2

\* C6: when a document yields more distinct valid addresses than the
\* maximum, the list has exactly the maximum number of entries, the
\* earliest discovered, in discovery order.
C6_EarliestMaximum ==
    (Returned /\ Len(SelectSeq(emails, keepEmail)) > MaxResults) =>
        result = SubSeq(SelectSeq(emails, keepEmail), 1, MaxResults)

(***************************************************************************)
(* Properties of isValidEmail.                                             *)
(***************************************************************************)
Accepted == last = "isValidEmail" /\ verdict = "valid"

\* C7: isValidEmail accepts a string only if it contains exactly one @,
\* which is neither its first nor its last character.
C7_ExactlyOneAt ==
    Accepted =>
        /\ Cardinality({i \in 1..Len(input) : input[i] = "@"}) = 1
        /\ input[1] # "@"
        /\ input[Len(input)] # "@"

\* the text after the first @ of s
DomainOf(s) ==
    SubSeq(s, (CHOOSE i \in 1..Len(s) : s[i] = "@" /\ \A j \in 1..(i - 1) : s[j] # "@") + 1, Len(s))

\* the length of the text after the last dot of d
TopLevelLength(d) ==
    Len(d) - (CHOOSE i \in 1..Len(d) : d[i] = "." /\ \A j \in (i + 1)..Len(d) : d[j] # ".")

\* C8: isValidEmail accepts a string only if its domain, the text after the
\* (first) @, has length 1..253, contains a dot, neither starts nor ends
\* with a dot, contains no two dots in a row, and its top-level label has
\* length 2..6.
C8_DomainRules ==
    Accepted =>
        /\ \E i \in 1..Len(input) : input[i] = "@"
        /\ Len(DomainOf(input)) \in 1..253
        /\ \E i \in 1..Len(DomainOf(input)) : DomainOf(input)[i] = "."
        /\ DomainOf(input)[1] # "."
        /\ DomainOf(input)[Len(DomainOf(input))] # "."
        /\ \A i \in 1..(Len(DomainOf(input)) - 1) :
               ~(DomainOf(input)[i] = "." /\ DomainOf(input)[i + 1] = ".")
        /\ TopLevelLength(DomainOf(input)) \in 2..6

\* an address whose top-level label has the greatest length allowed is accepted
C8_Witness == Accepted /\ input = Chars("a@b.abcdef")

\* s holds two dots, two @ or two hyphens in a row
HasInvalidPair(s) ==
    \E i \in 1..(Len(s) - 1) : s[i] = s[i + 1] /\ s[i] \in {".", "@", "-"}

\* C9: isValidEmail rejects every string that contains '..', '@@' or '--',
\* so no entry extractFromText returns contains one of them, and a text
\* with a..b@domain.com yields nothing for that candidate.
C9_RejectsInvalidPairs ==
    /\ (last = "isValidEmail" /\ HasInvalidPair(input)) => verdict = "invalid"
    /\ last = "extractFromText" =>
          (/\ \A i \in 1..Len(result) : ~HasInvalidPair(result[i])
           /\ (input = Chars("Write to a..b@domain.com today.") => result = <<>>))

\* the validator has rejected a--b@domain.com, and the scanner given the
\* same string has returned nothing
C9_Witness ==
    /\ input = Chars("a--b@domain.com")
    /\ verdict = "invalid"
    /\ last = "extractFromText"
    /\ result = <<>>

\* s holds a tag-open sequence: < followed by a letter, a slash or !
HasTagOpen(s) ==
    \E i \in 1..(Len(s) - 1) : s[i] = "<" /\ s[i + 1] \in Upper \cup Lower \cup {"/", "!"}

\* C10: isValidEmail rejects every string that contains a tag-open
\* sequence, a script-URI scheme, an inline event-handler pattern or a data
\* URI carrying HTML, in any letter case.
C10_RejectsMarkup ==
    (/\ last = "isValidEmail"
     /\ \/ HasTagOpen(input)
        \/ TestLiteralI(input, Chars("javascript:"))
        \/ TestLiteralI(input, Chars("vbscript:"))
        \/ TestEventHandler(input)
        \/ TestDataHtml(input))
    => verdict = "invalid"

IsMalformed(el) ==
    \/ matches(el, "script[type=\"application/ld+json\"]") /\ JSONparse(el.text).threw
    \/ el.tag = "iframe" /\ el.frameText = Null

\* the document without its malformed segments
Clean(d) == [d EXCEPT !.body = SelectSeq(d.body, LAMBDA el : ~IsMalformed(el))]

\* C12: a malformed source segment is skipped: the structured-data source
\* yields what it yields without the segment, every address that a
\* well-formed segment yields when it is the only element of the page is
\* collected, a document whose text is empty yields the addresses of its
\* other sources, and no exception reaches the caller of extractEmails.
C12_MalformedSkipped ==
    last = "extractEmails" =>
        /\ caught = FALSE
        /\ extractFromStructuredData(doc) = extractFromStructuredData(Clean(doc))
        /\ \A k \in 1..Len(doc.body) :
              ~IsMalformed(doc.body[k]) =>
                  LET alone == collectEmails([head |-> <<>>, body |-> <<doc.body[k]>>])
                  IN \A i \in 1..Len(alone) : arrayIncludes(emails, alone[i])
        /\ getAllTextContent(doc) = <<>> => emails = Distinct(DiscoveredAfterText(doc))

\* a script that does not parse stands after one that does, and the
\* address of the one that parses has been returned
C12_Witness ==
    /\ last = "extractEmails"
    /\ Len(doc.body) = 2
    /\ ~IsMalformed(doc.body[1]) /\ IsMalformed(doc.body[2])
    /\ extractFromStructuredData(doc) = <<Chars("jane@corp.io")>>
    /\ arrayIncludes(result, Chars("jane@corp.io"))

(***************************************************************************)
(* Properties of the mailto links.                                         *)
(***************************************************************************)
\* the text of href after the prefix "mailto:" up to the first "?",
\* lower-cased and trimmed
MailtoCandidate(href) ==
    LET rest == SubSeq(href, 8, Len(href))
        cut == IF \E i \in 1..Len(rest) : rest[i] = "?"
               THEN SubSeq(rest, 1, (CHOOSE i \in 1..Len(rest) :
                                        rest[i] = "?" /\ \A k \in 1..(i - 1) : rest[k] # "?") - 1)
               ELSE rest
    IN trim(toLowerCase(cut))

\* C13: a link whose href starts with "mailto:" contributes its candidate,
\* the text after the prefix up to the first "?", lower-cased and trimmed,
\* exactly when the candidate passes the isValidEmail of the extractor that
\* reads the link.
C13_MailtoCandidate ==
    LET candidate == MailtoCandidate(doc.body[1].href)
    IN /\ last = "extractEmails" =>
             emails = (IF isValidEmail(candidate) THEN <<candidate>> ELSE <<>>)
       /\ last = "extractEmailsFromPage" =>
             emails = (IF classIsValidEmail(candidate) THEN <<candidate>> ELSE <<>>)
\* C14: utils.sanitizeEmails with duplicate removal on is idempotent: whenever
\* the list the popup keeps was last produced with the checkbox on, applying
\* sanitizeEmails to it again returns it, element for element in the same order.
C14_Idempotent ==
    (last \in {"addEmails", "removeDuplicatesChange"} /\ removeDupes) =>
        sanitizeEmails(extractedEmails, TRUE) = extractedEmails

\* a list that lost a tag, a duplicate and an invalid entry is sanitized again
\* by the checkbox being switched on
C14_Witness ==
    /\ last = "removeDuplicatesChange"
    /\ removeDupes
    /\ extractedEmails = <<Chars("amy@x.org"), Chars("kim@x.org")>>

\* C15: every substring emailRegex matches in the text given to
\* extractFromText has a domain of at least two labels: it holds a "." after
\* its "@" (so that user@localhost is not a match of the grammar).
C15_MatchHasTwoLabels ==
    last = "extractFromText" =>
        \A i \in 1..Len(Matches(input)) :
            LET m == Matches(input)[i]
            IN \E a \in 1..Len(m) : m[a] = "@" /\ \E d \in (a + 1)..Len(m) : m[d] = "."

\* C16: extractFromText returns no more addresses than its cap: at most 100
\* from the extractor of performance-test.js, at most 1000 from the class
\* whose loop reports that it stopped at 1000 emails.
C16_AtMostCap ==
    /\ last = "performanceTest.extractFromText" => Len(result) <= 100
    /\ last = "classExtractFromText" => Len(result) <= 1000

\* C17: extractFromText is restartable: whatever calls preceded on the same
\* extractor, the call returns what it returns on a regular expression that
\* was never used.
C17_Restartable ==
    /\ last = "extractFromText" => result = extractFromTextAt(input, 0).emails
    /\ last = "performanceTest.extractFromText" => result = perfExtractFromText(input, 0).emails

\* a call that follows one stopped at the cap, which had left the regular
\* expression part-way through its text
C17_Witness ==
    /\ last = "performanceTest.extractFromText"
    /\ lastIndex.atCall > 0
    /\ result = <<Chars("jo@site.io"), Chars("amy@x.org")>>

\* C18: the background message handler acts on a message only when the
\* sender's id is the extension's own id: handling a message of any other
\* sender changes no stored data and no badge, and answers no success.
C18_OnlyOwnSender ==
    [][sender'.id # RuntimeId => (storage' = storage /\ badge' = badge /\ ~response'.success)]_vars

\* the form of a validated address: a string of 1 to 254 characters,
\* <text without space or @>@<text>.<text>
StoredForm(email) ==
    /\ email # Null
    /\ Len(email) \in 1..254
    /\ \A i \in 1..Len(email) : email[i] \notin Spaces
    /\ \E a \in 2..Len(email) :
          /\ email[a] = "@"
          /\ \A i \in 1..Len(email) : email[i] = "@" => i = a
          /\ \E d \in (a + 2)..(Len(email) - 1) : email[d] = "."

\* C19: every address the background handlers have written to storage has the
\* form of a validated address.
C19_StoredValidated ==
    \A list \in {storage.extractedEmails, storage.pageData.emails, storage.currentPageEmails.emails} :
        \A i \in 1..Len(list) : StoredForm(list[i])

\* the address occurs, in whatever case, in the text or in an attribute of an
\* element of the page that is not a sensitive element
OccursOutsideSensitive(d, email) ==
    \E el \in {(d.head \o d.body)[i] : i \in 1..Len(d.head \o d.body)} :
        /\ ~isSensitiveElement(el)
        /\ \E field \in DOMAIN el \ {"tag"} : includes(toLowerCase(el[field]), email)

\* C20: sensitive elements are avoided: an address that occurs only inside a
\* password or email input, a textarea, a form, an iframe, a script or a style
\* element is in no list an extraction returns.
C20_SensitiveAvoided ==
    Returned => \A i \in 1..Len(result) : OccursOutsideSensitive(doc, result[i])

\* C21: a message the keyboard command has sent to the active tab is one the
\* content script recognises as an extraction request: the listener never
\* answers it "Unknown message type", and an answer of success comes after an
\* extraction has run.
C21_CommandRunsExtraction ==
    reply.to = "command" =>
        /\ reply.error # "Unknown message type"
        /\ reply.success => reply.extracted
(***************************************************************************)
(* The cases of testEmailValidation.                                       *)
(***************************************************************************)
\* words of letters and digits joined by single separators
JoinedWords(s, separators) ==
    /\ Len(s) > 0
    /\ \A i \in 1..Len(s) : s[i] \in Alnum \cup separators
    /\ s[1] \in Alnum /\ s[Len(s)] \in Alnum
    /\ \A i \in 1..(Len(s) - 1) : s[i] \in Alnum \/ s[i + 1] \in Alnum

\* a well-formed address: one '@'; before it at most 64 characters, words
\* joined by '.' or '+'; after it at least two labels joined by '.', the last
\* of two to six characters
WellFormed(email) ==
    LET atIndex == indexOf(email, <<"@">>)
        localPart == substring(email, 0, atIndex)
        domain == substringFrom(email, atIndex + 1)
    IN /\ atIndex > 0
       /\ Len(email) <= 254 /\ Len(localPart) <= 64
       /\ JoinedWords(localPart, {".", "+"})
       /\ JoinedWords(domain, {"."})
       /\ includes(domain, <<".">>)
       /\ Len(splitLast(domain, <<".">>)) \in 2..6

\* C22: each of the two validators returns false for the empty value, for a
\* string without '@', for one that starts with '@', for one with nothing
\* after the '@' (it ends with '@'), and for one whose domain (what follows
\* the first '@') has no dot; it returns true for a well-formed address, among them those with
\* a '+' tag, a dotted local part or a domain of several labels that ends in
\* a two-letter label.
C22_TestCases ==
    last \in {"isValidEmail", "classIsValidEmail"} =>
        /\ (\/ Len(input) = 0
            \/ ~includes(input, <<"@">>)
            \/ startsWith(input, <<"@">>)
            \/ endsWith(input, <<"@">>)
            \/ ~includes(substringFrom(input, indexOf(input, <<"@">>) + 1), <<".">>))
              => verdict = "invalid"
        /\ WellFormed(input) => verdict = "valid"
(***************************************************************************)
(* The false-positive filter of extractEmailsFromPage.                     *)
(***************************************************************************)
\* an address that is neither one of the five placeholder addresses nor a
\* match of a generic entry: noreply@, no-reply@, donotreply@, newsletter@,
\* or a first domain label of one or two characters
Survivor(email) ==
    /\ \A i \in 1..5 : filterList[i].str # toLowerCase(email)
    /\ \A i \in 6..9 : ~includes(email, filterList[i].str)
    /\ ~TestShortLabel(email)

\* C23: filterFalsePositives returns without raising, and what it returns is
\* the addresses it was given, in their order, that are neither a placeholder
\* address nor a match of a generic entry; extractEmailsFromPage hands these
\* survivors (up to its limit) to its caller, not the empty list of its catch.
C23_SurvivorsReturned ==
    last = "extractEmailsFromPage" =>
        /\ ~caught
        /\ result = limitResults([threw |-> FALSE, value |-> SelectSeq(emails, Survivor)])
(***************************************************************************)
(* What the final filter of extractEmails removes.                         *)
(***************************************************************************)
\* a placeholder address, or an address containing a deny-listed fragment
DenyListed(email) ==
    \/ email \in falsePositives
    \/ \E frag \in {Chars("localhost"), Chars("127.0.0.1"), Chars("test."),
                    Chars("example."), Chars("demo.")} : includes(email, frag)

\* C24: the final filter of extractEmails removes nothing but duplicates,
\* deny-listed addresses and entries beyond the maximum count: each of the
\* first MaxResults distinct validated addresses the sources have yielded is
\* in the returned list unless it is deny-listed.
C24_OnlyThreeReasons ==
    last = "extractEmails" =>
        \A i \in 1..Min(Len(emails), MaxResults) :
            DenyListed(emails[i]) \/ arrayIncludes(result, emails[i])
(***************************************************************************)
(* Concurrent requests on the stored list.                                 *)
(***************************************************************************)
\* C25: no update is lost: once every request that has arrived is done, the
\* stored list holds every address of every request (in the letter case the
\* handler stores), up to the limit of 1000 entries, in whatever order the
\* callbacks of the storage operations have run.
C25_NoLostUpdate ==
    (\A i \in 1..Len(pending) : pending[i].phase = "done") =>
        \/ Len(storage.extractedEmails) >= 1000
        \/ \A i \in 1..Len(pending) : \A k \in 1..Len(pending[i].emails) :
              \E j \in 1..Len(storage.extractedEmails) :
                  toLowerCase(storage.extractedEmails[j]) = toLowerCase(pending[i].emails[k])
(***************************************************************************)
(* The response to a message.                                              *)
(***************************************************************************)
\* C26: for every message delivered to the onMessage listener of the
\* background script, of any type and with any payload, sendResponse is
\* called exactly once.
C26_RespondsOnce ==
    last \in {"background.js onMessage", "part_000 onMessage"} => response.calls = 1
(***************************************************************************)
(* The extraction flag of the popup.                                       *)
(***************************************************************************)
\* C27: isExtracting is true exactly while one extraction is in flight: no
\* second extraction is started while it is true, and when an extraction
\* leaves on any path (addresses found, none found, an error) the flag is
\* false again and the Extract button is enabled.
C27_FlagWhileInFlight ==
    /\ Len(extractions) <= 1
    /\ isExtracting <=> Len(extractions) = 1
    /\ popupUi.disabled <=> isExtracting

\* a trigger has arrived while an extraction awaits the script it has
\* executed in the tab, and has returned at once
C27_Witness ==
    /\ last = "extractEmails returned at once"
    /\ isExtracting
    /\ extractions = <<"scripting.executeScript">>
====
